---- MODULE Spec2Model ----
(***************************************************************************)
(* Portfolio ledger, order-execution cost model, stop-loss and rebalancing *)
(* of lazyAItrading: src/backtest/portfolio.py, src/backtest/engine.py,    *)
(* src/runner_daily.py, src/runner_gemini.py, src/agents/risk.py; and the  *)
(* pure functions of src/predict_cli.py, src/tools/eval_model.py and       *)
(* src/core/orchestrator.py.                                               *)
(*                                                                         *)
(* Python floats are modelled as exact rationals <<n, d>> in lowest terms  *)
(* with d > 0, so equality of two numbers is equality of the pairs.        *)
(***************************************************************************)
EXTENDS Integers, Sequences, FiniteSets, TLC

VARIABLES
    ledger,          \* ledger under test: a Portfolio object
    zledger,         \* the same calls applied to a ledger with zero fee_rate and slippage
    last,          \* the last buy/sell call: its arguments and the ledgers before it
    acq,           \* the buy just made (symbol, price, quantity acquired), if any
    nops,          \* number of calls made
    trade_log,     \* the ledger's trade_log_path and the lines of that file
    bt,            \* backtest(): its arguments and loop state
    state_file,    \* artifacts/state/portfolio.json
    run_cfg,       \* command-line arguments of the live runner
    run,           \* per invocation of the live runner: position in rebalance_to_picks and locals
    call           \* one call of a pure function: its name, arguments and return value

ledgerVars == <<ledger, zledger, last, acq, nops, trade_log>>
btVars == <<bt>>
runVars == <<state_file, run_cfg, run>>
callVars == <<call>>
vars == <<ledger, zledger, last, acq, nops, trade_log, bt, state_file, run_cfg, run, call>>

(***************************************************************************)
(* Rational arithmetic: the float operators +, -, *, /, <=, min, max, abs  *)
(***************************************************************************)
Abs(n) == IF n < 0 THEN -n ELSE n

RECURSIVE GCD(_, _)
GCD(a, b) == IF b = 0 THEN a ELSE GCD(b, a % b)

Frac(n, d) ==
    LET g == GCD(Abs(n), Abs(d))
        s == IF d < 0 THEN -1 ELSE 1
    IN  <<(s * n) \div g, (s * d) \div g>>

R(n) == <<n, 1>>
RZero == R(0)
ROne == R(1)

\* sums and comparisons over the least common denominator, products reduced crosswise
RAdd(x, y) ==
    LET g == GCD(x[2], y[2])
    IN  Frac(x[1] * (y[2] \div g) + y[1] * (x[2] \div g), (x[2] \div g) * y[2])
RNeg(x) == <<-x[1], x[2]>>
RSub(x, y) == RAdd(x, RNeg(y))
RMul(x, y) ==
    LET g1 == GCD(Abs(x[1]), y[2])
        g2 == GCD(Abs(y[1]), x[2])
    IN  <<(x[1] \div g1) * (y[1] \div g2), (x[2] \div g2) * (y[2] \div g1)>>
RInv(y) == IF y[1] < 0 THEN <<-y[2], -y[1]>> ELSE <<y[2], y[1]>>
RDiv(x, y) == RMul(x, RInv(y))
RLe(x, y) ==
    LET g == GCD(x[2], y[2])
    IN  x[1] * (y[2] \div g) <= y[1] * (x[2] \div g)
RLt(x, y) == ~RLe(y, x)
RMin(x, y) == IF RLe(x, y) THEN x ELSE y
RMax(x, y) == IF RLe(x, y) THEN y ELSE x
RAbs(x) == <<Abs(x[1]), x[2]>>

(***************************************************************************)
(* portfolio.py: Position and Portfolio                                    *)
(***************************************************************************)
Symbols == {"AAA", "BBB"}

Position(qty, avg_price) == [qty |-> qty, avg_price |-> avg_price]

NoPositions == [s \in {} |-> Position(RZero, RZero)]

\* Portfolio.__init__: the cost parameters are clamped at 0
Portfolio(cash, fee_rate, fee_fixed, slippage_bps) ==
    [cash |-> cash,
     positions |-> NoPositions,
     fee_rate |-> RMax(RZero, fee_rate),
     fee_fixed |-> RMax(RZero, fee_fixed),
     slippage_bps |-> RMax(RZero, slippage_bps)]

\* self.positions.get(symbol, Position())
positions_get(positions, symbol) ==
    IF symbol \in DOMAIN positions THEN positions[symbol] ELSE Position(RZero, RZero)

\* self.positions[symbol] = pos
positions_set(positions, symbol, pos) ==
    [s \in (DOMAIN positions) \cup {symbol} |-> IF s = symbol THEN pos ELSE positions[s]]

TenThousand == R(10000)

\* price * (1.0 + self.slippage_bps / 10_000.0)
buy_exec_px(port, price) ==
    RMul(price, RAdd(ROne, RDiv(port.slippage_bps, TenThousand)))

\* price * (1.0 - self.slippage_bps / 10_000.0)
sell_exec_px(port, price) ==
    RMul(price, RSub(ROne, RDiv(port.slippage_bps, TenThousand)))

\* defect: the spend is not capped at the available cash
buy_spend_uncapped(port, amount_cash) == amount_cash

\* spend = min(self.cash, amount_cash)
buy_spend(port, amount_cash) == RMin(port.cash, amount_cash)

\* defect: the average cost is blended with the execution price instead of the quote
buy_avg_price_exec(pos, price, exec_px, qty, new_qty) ==
    IF RLt(RZero, new_qty)
    THEN RDiv(RAdd(RMul(pos.avg_price, pos.qty), RMul(exec_px, qty)), new_qty)
    ELSE RZero

\* (pos.avg_price * pos.qty + price * qty) / new_qty if new_qty > 0 else 0.0
buy_avg_price(pos, price, exec_px, qty, new_qty) ==
    IF RLt(RZero, new_qty)
    THEN RDiv(RAdd(RMul(pos.avg_price, pos.qty), RMul(price, qty)), new_qty)
    ELSE RZero

\* defect: no check that the spend covers the fixed fee
buy_no_fee_guard(port, symbol, price, amount_cash) ==
    IF RLe(amount_cash, RZero) \/ RLe(price, RZero) THEN port
    ELSE LET spend == buy_spend(port, amount_cash)
             exec_px == buy_exec_px(port, price)
             denom == RMul(exec_px, RAdd(ROne, port.fee_rate))
             qty == RDiv(RSub(spend, port.fee_fixed), denom)
             pos == positions_get(port.positions, symbol)
             new_qty == RAdd(pos.qty, qty)
             new_pos == Position(new_qty, buy_avg_price(pos, price, exec_px, qty, new_qty))
         IN  [port EXCEPT !.cash = RSub(port.cash, spend),
                          !.positions = positions_set(port.positions, symbol, new_pos)]

\* Portfolio.buy
buy(port, symbol, price, amount_cash) ==
    IF RLe(amount_cash, RZero) \/ RLe(price, RZero) THEN port
    ELSE LET spend == buy_spend(port, amount_cash)
             exec_px == buy_exec_px(port, price)
             denom == RMul(exec_px, RAdd(ROne, port.fee_rate))
         IN  IF RLe(denom, RZero) THEN port
             ELSE IF RLe(spend, port.fee_fixed) THEN port
             ELSE LET qty == RDiv(RSub(spend, port.fee_fixed), denom)
                      pos == positions_get(port.positions, symbol)
                      new_qty == RAdd(pos.qty, qty)
                      new_pos == Position(new_qty,
                                          buy_avg_price(pos, price, exec_px, qty, new_qty))
                  IN  [port EXCEPT !.cash = RSub(port.cash, spend),
                                   !.positions = positions_set(port.positions, symbol, new_pos)]

\* defect: the quantity sold is not capped at the quantity held
sell_qty_uncapped(pos, qty) == qty

\* defect: every sell liquidates the whole position
sell_qty_all(pos, qty) == pos.qty

\* sell_qty = min(pos.qty, qty)
sell_qty_of(pos, qty) == RMin(pos.qty, qty)

\* defect: the net proceeds are not floored at zero
sell_proceeds_unfloored(port, gross) ==
    RSub(RMul(gross, RSub(ROne, port.fee_rate)), port.fee_fixed)

\* proceeds = max(0.0, gross * (1.0 - self.fee_rate) - self.fee_fixed)
sell_proceeds(port, gross) ==
    RMax(RZero, RSub(RMul(gross, RSub(ROne, port.fee_rate)), port.fee_fixed))

\* defect: the average cost survives a sale down to zero
sell_avg_price_stale(pos, new_qty) == pos.avg_price

\* if pos.qty <= 0: pos.avg_price = 0.0
sell_avg_price(pos, new_qty) ==
    IF RLe(new_qty, RZero) THEN RZero ELSE pos.avg_price

\* Portfolio.sell
sell(port, symbol, price, qty) ==
    IF RLe(qty, RZero) \/ RLe(price, RZero) THEN port
    ELSE IF symbol \notin DOMAIN port.positions THEN port
    ELSE LET pos == port.positions[symbol]
         IN  IF RLe(pos.qty, RZero) THEN port
             ELSE LET sq == sell_qty_of(pos, qty)
                      exec_px == sell_exec_px(port, price)
                      gross == RMul(sq, exec_px)
                      proceeds == sell_proceeds(port, gross)
                      new_qty == RSub(pos.qty, sq)
                      new_pos == Position(new_qty, sell_avg_price(pos, new_qty))
                  IN  [port EXCEPT !.cash = RAdd(port.cash, proceeds),
                                   !.positions = positions_set(port.positions, symbol, new_pos)]

\* defect: a missing quote is valued at 0 instead of the average cost
RECURSIVE SumOver_missing_zero(_, _, _)
SumOver_missing_zero(S, positions, prices) ==
    IF S = {} THEN RZero
    ELSE LET sym == CHOOSE s \in S : TRUE
             pos == positions[sym]
             px == IF sym \in DOMAIN prices THEN prices[sym] ELSE RZero
         IN  RAdd(RMul(pos.qty, px), SumOver_missing_zero(S \ {sym}, positions, prices))

RECURSIVE SumOver(_, _, _)
\* eq += pos.qty * px over self.positions.items()
SumOver(S, positions, prices) ==
    IF S = {} THEN RZero
    ELSE LET sym == CHOOSE s \in S : TRUE
             pos == positions[sym]
             px == IF sym \in DOMAIN prices THEN prices[sym] ELSE pos.avg_price
         IN  RAdd(RMul(pos.qty, px), SumOver(S \ {sym}, positions, prices))

value_missing_zero(port, prices) ==
    RAdd(port.cash, SumOver_missing_zero(DOMAIN port.positions, port.positions, prices))

\* Portfolio.value
value(port, prices) == RAdd(port.cash, SumOver(DOMAIN port.positions, port.positions, prices))

(***************************************************************************)
(* Ledger specification: any sequence of buy and sell calls on a Portfolio *)
(***************************************************************************)
MaxOps == 3

StartCash == {R(10)}
CostModel(fee_rate, fee_fixed, slippage_bps) ==
    [fee_rate |-> fee_rate, fee_fixed |-> fee_fixed, slippage_bps |-> slippage_bps]
\* (fee_rate, fee_fixed, slippage_bps): none, each alone, combined, and above 100%
CostModels ==
    {CostModel(R(0), R(0), R(0)),
     CostModel(Frac(1, 2), R(0), R(0)),
     CostModel(R(0), R(0), R(5000)),
     CostModel(R(0), R(1), R(0)),
     CostModel(Frac(1, 2), R(0), R(5000)),
     CostModel(Frac(1, 2), R(1), R(5000)),
     CostModel(R(3), R(0), R(30000))}
Prices == {R(-1), R(0), R(1), R(2)}
Amounts == {R(-1), R(0), R(1), R(4), R(20)}
Quantities == {R(-1), R(0), R(1), R(3), R(50)}

NoCall == [op |-> "none"]
NoAcq == [symbol |-> "none"]
\* trade_log_path = None: nothing is logged
NoLog == [path |-> "", lines |-> <<>>]

IdleLedger ==
    /\ ledger = Portfolio(RZero, RZero, RZero, RZero)
    /\ zledger = Portfolio(RZero, RZero, RZero, RZero)
    /\ last = NoCall
    /\ acq = NoAcq
    /\ nops = 0
    /\ trade_log = NoLog

InitLedger ==
    /\ \E c \in StartCash, cm \in CostModels :
          /\ ledger = Portfolio(c, cm.fee_rate, cm.fee_fixed, cm.slippage_bps)
          /\ zledger = Portfolio(c, RZero, cm.fee_fixed, RZero)
    /\ last = NoCall
    /\ acq = NoAcq
    /\ nops = 0
    /\ trade_log = NoLog

qty_of(p, symbol) == positions_get(p.positions, symbol).qty

\* port.buy(symbol, price, amount_cash), mirrored on the zero-friction ledger
Buy ==
    /\ nops < MaxOps
    /\ \E symbol \in Symbols, price \in Prices, amount_cash \in Amounts :
          /\ ledger' = buy(ledger, symbol, price, amount_cash)
          /\ zledger' = buy(zledger, symbol, price, amount_cash)
          /\ last' = [op |-> "buy", symbol |-> symbol, price |-> price, arg |-> amount_cash,
                      pre |-> ledger, zpre |-> zledger, roundtrip |-> FALSE,
                      cash0 |-> RZero, qty0 |-> RZero]
          /\ acq' = [symbol |-> symbol, price |-> price,
                     qty |-> RSub(qty_of(ledger', symbol), qty_of(ledger, symbol)),
                     cash0 |-> ledger.cash, qty0 |-> qty_of(ledger, symbol)]
    /\ nops' = nops + 1
    /\ UNCHANGED <<trade_log, btVars, runVars, callVars>>

\* port.sell(symbol, price, qty), mirrored on the zero-friction ledger; qty may be
\* exactly the quantity the preceding buy acquired
Sell ==
    /\ nops < MaxOps
    /\ \E symbol \in Symbols, price \in Prices,
          qty \in Quantities \cup (IF acq = NoAcq THEN {} ELSE {acq.qty}) :
          LET rt == /\ acq # NoAcq
                    /\ acq.symbol = symbol
                    /\ acq.price = price
                    /\ acq.qty = qty
          IN  /\ ledger' = sell(ledger, symbol, price, qty)
              /\ zledger' = sell(zledger, symbol, price, qty)
              /\ last' = [op |-> "sell", symbol |-> symbol, price |-> price, arg |-> qty,
                          pre |-> ledger, zpre |-> zledger, roundtrip |-> rt,
                          cash0 |-> IF rt THEN acq.cash0 ELSE RZero,
                          qty0 |-> IF rt THEN acq.qty0 ELSE RZero]
    /\ acq' = NoAcq
    /\ nops' = nops + 1
    /\ UNCHANGED <<trade_log, btVars, runVars, callVars>>

IdleBacktest == bt = [pc |-> "idle"]

IdleCall == call = [pc |-> "idle"]

IdleRunner ==
    /\ state_file = [cash |-> RZero, positions |-> NoPositions]
    /\ run_cfg = [profile |-> "none"]
    /\ run = <<>>

NextLedger == Buy \/ Sell

LedgerOnly == InitLedger /\ IdleBacktest /\ IdleRunner /\ IdleCall

SpecLedger == LedgerOnly /\ [][NextLedger]_vars

(***************************************************************************)
(* portfolio.py: the trade audit log (_log_trade) and value(), exercised   *)
(* on a ledger built with a trade_log_path                                 *)
(***************************************************************************)
\* rec = {...} of _log_trade, without the timestamp
TradeRecord(port, side, symbol, qty, exec_px, gross, net_cash_delta) ==
    [side |-> side, symbol |-> symbol, qty |-> qty, exec_px |-> exec_px,
     gross_notional |-> gross, net_cash_delta |-> net_cash_delta,
     fee_rate |-> port.fee_rate, fee_fixed |-> port.fee_fixed,
     slippage_bps |-> port.slippage_bps, cash_after |-> port.cash,
     position_qty_after |-> positions_get(port.positions, symbol).qty]

\* defect: no try/except around the write, the exception reaches the caller
log_trade_unguarded(log, rec, io_ok) ==
    IF log.path = "" THEN [log |-> log, raised |-> FALSE]
    ELSE IF io_ok THEN [log |-> [log EXCEPT !.lines = Append(@, rec)], raised |-> FALSE]
    ELSE [log |-> log, raised |-> TRUE]

\* Portfolio._log_trade: io_ok tells whether makedirs, open and write all succeed
log_trade(log, rec, io_ok) ==
    IF log.path = "" THEN [log |-> log, raised |-> FALSE]
    ELSE IF io_ok THEN [log |-> [log EXCEPT !.lines = Append(@, rec)], raised |-> FALSE]
    ELSE [log |-> log, raised |-> FALSE]

\* the early returns of buy (lines 58-69) are not taken
buy_executes(port, price, amount_cash) ==
    /\ ~(RLe(amount_cash, RZero) \/ RLe(price, RZero))
    /\ ~RLe(RMul(buy_exec_px(port, price), RAdd(ROne, port.fee_rate)), RZero)
    /\ ~RLe(buy_spend(port, amount_cash), port.fee_fixed)

\* Portfolio.buy with its call of _log_trade (line 77)
buy_logged(port, log, symbol, price, amount_cash, io_ok) ==
    IF ~buy_executes(port, price, amount_cash)
    THEN [port |-> port, log |-> log, raised |-> FALSE]
    ELSE LET after == buy(port, symbol, price, amount_cash)
             spend == buy_spend(port, amount_cash)
             exec_px == buy_exec_px(port, price)
             qty == RDiv(RSub(spend, port.fee_fixed),
                         RMul(exec_px, RAdd(ROne, port.fee_rate)))
             w == log_trade(log, TradeRecord(after, "BUY", symbol, qty, exec_px,
                                             RMul(qty, exec_px), RNeg(spend)), io_ok)
         IN  [port |-> after, log |-> w.log, raised |-> w.raised]

\* the early returns of sell (lines 80-84) are not taken
sell_executes(port, symbol, price, qty) ==
    /\ ~(RLe(qty, RZero) \/ RLe(price, RZero))
    /\ symbol \in DOMAIN port.positions
    /\ ~RLe(port.positions[symbol].qty, RZero)

\* Portfolio.sell with its call of _log_trade (line 95)
sell_logged(port, log, symbol, price, qty, io_ok) ==
    IF ~sell_executes(port, symbol, price, qty)
    THEN [port |-> port, log |-> log, raised |-> FALSE]
    ELSE LET after == sell(port, symbol, price, qty)
             sq == sell_qty_of(port.positions[symbol], qty)
             exec_px == sell_exec_px(port, price)
             gross == RMul(sq, exec_px)
             w == log_trade(log, TradeRecord(after, "SELL", symbol, sq, exec_px, gross,
                                             sell_proceeds(port, gross)), io_ok)
         IN  [port |-> after, log |-> w.log, raised |-> w.raised]

TRADE_LOG == "artifacts/trades/trades.jsonl"
AuditLogPaths == {"", TRADE_LOG}
AuditCostModels == {CostModel(R(0), R(0), R(0)), CostModel(Frac(1, 2), R(1), R(5000))}
AuditPrices == {R(1), R(2)}
AuditAmounts == {R(4), R(20)}
AuditQuantities == {R(1), R(50)}
\* the prices dict passed to value(): any subset of the symbols quoted
AuditQuotes == UNION {[D -> {R(1), R(3)}] : D \in SUBSET Symbols}

\* zledger: the same calls on a ledger whose log writes all succeed
InitAudit ==
    /\ \E c \in StartCash, cm \in AuditCostModels :
          /\ ledger = Portfolio(c, cm.fee_rate, cm.fee_fixed, cm.slippage_bps)
          /\ zledger = ledger
    /\ \E path \in AuditLogPaths : trade_log = [path |-> path, lines |-> <<>>]
    /\ last = NoCall
    /\ acq = NoAcq
    /\ nops = 0

\* port.buy(symbol, price, amount_cash); the log write succeeds or fails
AuditBuy ==
    /\ nops < MaxOps
    /\ \E symbol \in Symbols, price \in AuditPrices, amount_cash \in AuditAmounts,
          io_ok \in BOOLEAN :
          LET r == buy_logged(ledger, trade_log, symbol, price, amount_cash, io_ok)
          IN  /\ ledger' = r.port
              /\ trade_log' = r.log
              /\ zledger' = buy_logged(zledger, trade_log, symbol, price, amount_cash,
                                       TRUE).port
              /\ last' = [op |-> "buy", symbol |-> symbol, price |-> price,
                          arg |-> amount_cash, pre |-> ledger, io_ok |-> io_ok,
                          attempted |-> buy_executes(ledger, price, amount_cash),
                          raised |-> r.raised]
    /\ nops' = nops + 1
    /\ UNCHANGED <<acq, btVars, runVars, callVars>>

\* port.sell(symbol, price, qty); the log write succeeds or fails
AuditSell ==
    /\ nops < MaxOps
    /\ \E symbol \in Symbols, price \in AuditPrices, qty \in AuditQuantities,
          io_ok \in BOOLEAN :
          LET r == sell_logged(ledger, trade_log, symbol, price, qty, io_ok)
          IN  /\ ledger' = r.port
              /\ trade_log' = r.log
              /\ zledger' = sell_logged(zledger, trade_log, symbol, price, qty, TRUE).port
              /\ last' = [op |-> "sell", symbol |-> symbol, price |-> price,
                          arg |-> qty, pre |-> ledger, io_ok |-> io_ok,
                          attempted |-> sell_executes(ledger, symbol, price, qty),
                          raised |-> r.raised]
    /\ nops' = nops + 1
    /\ UNCHANGED <<acq, btVars, runVars, callVars>>

\* port.value(prices)
AuditValue ==
    /\ nops < MaxOps
    /\ \E prices \in AuditQuotes :
          last' = [op |-> "value", prices |-> prices, pre |-> ledger,
                   returned |-> value(ledger, prices)]
    /\ nops' = nops + 1
    /\ UNCHANGED <<ledger, zledger, acq, trade_log, btVars, runVars, callVars>>

NextAudit == AuditBuy \/ AuditSell \/ AuditValue

AuditOnly == InitAudit /\ IdleBacktest /\ IdleRunner /\ IdleCall

SpecAudit == AuditOnly /\ [][NextAudit]_vars

(***************************************************************************)
(* agents/risk.py: RiskAgent.PROFILES                                      *)
(***************************************************************************)
RiskProfile(name, max_position_pct, stop_loss_pct) ==
    [name |-> name, max_position_pct |-> max_position_pct, stop_loss_pct |-> stop_loss_pct]

PROFILES ==
    [n \in {"conservative", "balanced", "aggressive"} |->
        CASE n = "conservative" -> RiskProfile(n, Frac(2, 100), Frac(3, 100))
          [] n = "balanced" -> RiskProfile(n, Frac(5, 100), Frac(7, 100))
          [] n = "aggressive" -> RiskProfile(n, Frac(8, 100), Frac(15, 100))]

(***************************************************************************)
(* backtest/engine.py: backtest()                                          *)
(***************************************************************************)
NumBars == 3

RECURSIVE MinOf(_)
\* min(lengths)
MinOf(S) ==
    LET x == CHOOSE y \in S : TRUE
    IN  IF S = {x} THEN x
        ELSE LET m == MinOf(S \ {x}) IN IF x < m THEN x ELSE m

SeqToSet(q) == {q[k] : k \in 1..Len(q)}

\* defect: bar i is taken from the start of each series instead of its last N bars
bar_prices_first_n(symbols, ohlcv_map, N, i) ==
    [sym \in SeqToSet(symbols) |-> ohlcv_map[sym][i + 1]]

\* prices[sym] = float(series[-N + i].get("close", 0.0)) for sym in symbols
bar_prices(symbols, ohlcv_map, N, i) ==
    [sym \in SeqToSet(symbols) |-> ohlcv_map[sym][Len(ohlcv_map[sym]) - N + i + 1]]

\* prices.get(sym, 0.0)
prices_get(prices, sym) == IF sym \in DOMAIN prices THEN prices[sym] ELSE RZero

RECURSIVE bt_sell_unpicked(_, _, _, _)
\* for sym, pos in list(port.positions.items()):
\*     if pos.qty > 0 and sym not in picks: port.sell(sym, prices.get(sym, 0.0), pos.qty)
bt_sell_unpicked(p, todo, picks, prices) ==
    IF todo = {} THEN p
    ELSE LET sym == CHOOSE x \in todo : TRUE
             pos == p.positions[sym]
             q == IF RLt(RZero, pos.qty) /\ sym \notin SeqToSet(picks)
                  THEN sell(p, sym, prices_get(prices, sym), pos.qty)
                  ELSE p
         IN  bt_sell_unpicked(q, todo \ {sym}, picks, prices)

RECURSIVE bt_buy_picks(_, _, _, _, _, _)
\* for sym in picks: buy up to per_pos_cash when the gap exceeds the anti-churn threshold
bt_buy_picks(p, picks, prices, per_pos_cash, eq, min_trade_cash_pct) ==
    IF picks = <<>> THEN p
    ELSE LET sym == Head(picks)
             px == prices_get(prices, sym)
             current_val == IF sym \in DOMAIN p.positions
                            THEN RMul(p.positions[sym].qty, px) ELSE RZero
             delta_cash == RMax(RZero, RSub(per_pos_cash, current_val))
             q == IF RLe(px, RZero) THEN p
                  ELSE IF RLt(RMax(RMul(min_trade_cash_pct, eq), ROne), delta_cash)
                       THEN buy(p, sym, px, delta_cash)
                       ELSE p
         IN  bt_buy_picks(q, Tail(picks), prices, per_pos_cash, eq, min_trade_cash_pct)

\* defect: the selection yields no pick
bt_picks_none(ranked, max_holdings) == <<>>

\* picks = [s for s, _ in ranked[:max_holdings]]
bt_picks(ranked, max_holdings) ==
    SubSeq(ranked, 1, IF max_holdings < Len(ranked) THEN max_holdings ELSE Len(ranked))

\* the "periodic selection and rebalance" block of one bar
bt_rebalance(p, prices, picks, profile, min_trade_cash_pct) ==
    LET eq == value(p, prices)
        n == IF Len(picks) > 1 THEN Len(picks) ELSE 1
        per_pos_cash == RMin(RMul(eq, profile.max_position_pct), RDiv(eq, R(n)))
        sold == bt_sell_unpicked(p, DOMAIN p.positions, picks, prices)
    IN  bt_buy_picks(sold, picks, prices, per_pos_cash, eq, min_trade_cash_pct)

\* stop_px = px * (1 - final_stop)
bt_stop_px(pos, px, stop_loss_pct) == RMul(px, RSub(ROne, stop_loss_pct))

RECURSIVE bt_stop_loss(_, _, _, _)
\* the "enforce stop-loss daily" block of one bar
bt_stop_loss(p, todo, prices, stop_loss_pct) ==
    IF todo = {} THEN p
    ELSE LET sym == CHOOSE x \in todo : TRUE
             pos == p.positions[sym]
             px == prices_get(prices, sym)
             q == IF RLt(RZero, pos.qty) /\ RLe(px, bt_stop_px(pos, px, stop_loss_pct))
                  THEN sell(p, sym, px, pos.qty)
                  ELSE p
         IN  bt_stop_loss(q, todo \ {sym}, prices, stop_loss_pct)

\* body of "for i in range(N)" up to the value appended to equity_curve
bt_bar(p, prices, do_rebalance, picks, profile, min_trade_cash_pct) ==
    LET r == IF do_rebalance
             THEN bt_rebalance(p, prices, picks, profile, min_trade_cash_pct)
             ELSE p
    IN  bt_stop_loss(r, DOMAIN r.positions, prices, profile.stop_loss_pct)

BtSymbols == <<"AAA", "BBB">>
BtCloses == {R(4), R(5), R(8)}
BtSeries(S) == [1..NumBars -> S]
\* a flat series and one that drops by 20% after its first bar
BtSeriesB == {[k \in 1..NumBars |-> R(5)], [k \in 1..NumBars |-> IF k = 1 THEN R(5) ELSE R(4)]}
BtProfiles == {"balanced", "aggressive", "bogus"}
BtMaxHoldings == {1, 2}
BtRankings == {<<"AAA", "BBB">>, <<"BBB", "AAA">>}
\* score_universe returns the listed symbols in some order
BtRankingsOf(symbols) ==
    {r \in BtRankings \cup {symbols} :
        Len(r) = Len(symbols) /\ SeqToSet(r) = SeqToSet(symbols)}
\* (symbols, series of BBB): both symbols over full-length series
\* (flat, falling, doubling each bar), BBB with a shorter and an empty series, AAA alone,
\* no symbol, a symbol without a series, and AAA next to a symbol without a series
BtUniverses ==
    {[symbols |-> BtSymbols, b |-> b] : b \in BtSeriesB}
    \cup {[symbols |-> BtSymbols, b |-> [k \in 1..NumBars |-> R(2 ^ (k + 1))]],
          [symbols |-> BtSymbols, b |-> [k \in 1..(NumBars - 1) |-> R(5)]],
          [symbols |-> BtSymbols, b |-> <<>>],
          [symbols |-> <<"AAA">>, b |-> [k \in 1..NumBars |-> R(5)]],
          [symbols |-> <<>>, b |-> [k \in 1..NumBars |-> R(5)]],
          [symbols |-> <<"CCC">>, b |-> [k \in 1..NumBars |-> R(5)]],
          [symbols |-> <<"AAA", "CCC">>, b |-> [k \in 1..NumBars |-> R(5)]]}
\* (cost model, rebalance_every): the frictional runs rebalance every second bar, which
\* keeps the exact fractions within TLC's 32-bit integers; rebalance_every <= 0 is accepted
BtRuns ==
    {<<CostModel(R(0), R(0), R(0)), 1>>,
     <<CostModel(R(0), R(0), R(0)), 2>>,
     <<CostModel(Frac(1, 4), R(0), R(0)), 2>>,
     <<CostModel(R(0), R(0), R(0)), 0>>,
     <<CostModel(Frac(1, 4), R(0), R(0)), -1>>}
BtStartingCash == R(1000)
BtMinTradeCashPct == Frac(2, 1000)
\* the runs without costs that rebalance every bar also start from the default 10,000
\* and also use a threshold above every profile's max_position_pct
BtStartingCashOf(r) ==
    IF r[1] = CostModel(R(0), R(0), R(0)) /\ r[2] >= 1 THEN {BtStartingCash, R(10000)}
    ELSE {BtStartingCash}
BtMinTradeCashPctOf(r) ==
    IF r = <<CostModel(R(0), R(0), R(0)), 1>> THEN {BtMinTradeCashPct, Frac(6, 100)}
    ELSE {BtMinTradeCashPct}

InitBacktest ==
    \E a \in BtSeries(BtCloses), u \in BtUniverses, profile \in BtProfiles,
       max_holdings \in BtMaxHoldings, r \in BtRuns :
      \E ranked \in BtRankingsOf(u.symbols), starting_cash \in BtStartingCashOf(r),
         min_trade_cash_pct \in BtMinTradeCashPctOf(r) :
        bt = [pc |-> "call", symbols |-> u.symbols,
              ohlcv_map |-> [sym \in {"AAA", "BBB"} |-> IF sym = "AAA" THEN a ELSE u.b],
              starting_cash |-> starting_cash, profile |-> profile,
              max_holdings |-> max_holdings, rebalance_every |-> r[2],
              cost |-> r[1], min_trade_cash_pct |-> min_trade_cash_pct, ranked |-> ranked]

\* lengths = [len(ohlcv_map[s]) for s in symbols if s in ohlcv_map]
bt_lengths(symbols, ohlcv_map) ==
    {Len(ohlcv_map[sym]) : sym \in SeqToSet(symbols) \cap DOMAIN ohlcv_map}

\* backtest(): lines 23-33, from the call to the first loop test
BacktestEnter ==
    /\ bt.pc = "call"
    /\ \/ /\ bt.profile \notin DOMAIN PROFILES
          /\ bt' = [k \in DOMAIN bt \cup {"exc"} |->
                       IF k = "pc" THEN "raised"
                       ELSE IF k = "exc" THEN "ValueError" ELSE bt[k]]
       \/ /\ bt.profile \in DOMAIN PROFILES
          /\ bt_lengths(bt.symbols, bt.ohlcv_map) = {}
          /\ bt' = [k \in DOMAIN bt \cup {"equity_curve", "final_value"} |->
                       IF k = "pc" THEN "done"
                       ELSE IF k = "equity_curve" THEN <<>>
                       ELSE IF k = "final_value" THEN bt.starting_cash
                       ELSE bt[k]]
       \/ /\ bt.profile \in DOMAIN PROFILES
          /\ bt_lengths(bt.symbols, bt.ohlcv_map) # {}
          /\ LET lengths == bt_lengths(bt.symbols, bt.ohlcv_map)
                 loop == [pc |-> "loop", i |-> 0,
                          port |-> Portfolio(bt.starting_cash, bt.cost.fee_rate,
                                             bt.cost.fee_fixed, bt.cost.slippage_bps),
                          risk |-> PROFILES[bt.profile],
                          N |-> MinOf(lengths),
                          equity_curve |-> <<>>, prices |-> <<>>, traded |-> FALSE,
                          pre |-> Portfolio(bt.starting_cash, bt.cost.fee_rate,
                                            bt.cost.fee_fixed, bt.cost.slippage_bps),
                          rebalanced |-> FALSE,
                          mid |-> Portfolio(bt.starting_cash, bt.cost.fee_rate,
                                            bt.cost.fee_fixed, bt.cost.slippage_bps)]
             IN  bt' = [k \in DOMAIN bt \cup DOMAIN loop |->
                           IF k \in DOMAIN loop THEN loop[k] ELSE bt[k]]
    /\ UNCHANGED <<ledgerVars, runVars, callVars>>

\* defect: the selection and rebalance block runs on every bar
bt_do_rebalance_every_bar(i, rebalance_every) == TRUE

\* if rebalance_every > 0 and i % rebalance_every == 0
bt_do_rebalance(i, rebalance_every) == rebalance_every > 0 /\ i % rebalance_every = 0

\* listed symbols for which ohlcv_map.get(sym, []) is the empty default
bt_unlisted(symbols, ohlcv_map) == SeqToSet(symbols) \ DOMAIN ohlcv_map

\* one iteration of "for i in range(N)": series[-N + i] raises IndexError on the empty
\* default of a listed symbol without an entry, before anything of the bar has run;
\* pre, mid and rebalanced keep the ledger before the bar, the ledger after the rebalance
\* block and whether that block ran
BacktestBar ==
    /\ bt.pc = "loop"
    /\ bt.i < bt.N
    /\ \/ /\ bt_unlisted(bt.symbols, bt.ohlcv_map) # {}
          /\ bt' = [k \in DOMAIN bt \cup {"exc"} |->
                       IF k = "pc" THEN "raised"
                       ELSE IF k = "exc" THEN "IndexError" ELSE bt[k]]
       \/ /\ bt_unlisted(bt.symbols, bt.ohlcv_map) = {}
          /\ LET prices == bar_prices(bt.symbols, bt.ohlcv_map, bt.N, bt.i)
                 do_rebalance == bt_do_rebalance(bt.i, bt.rebalance_every)
                 picks == bt_picks(bt.ranked, bt.max_holdings)
                 mid == IF do_rebalance
                        THEN bt_rebalance(bt.port, prices, picks, bt.risk,
                                          bt.min_trade_cash_pct)
                        ELSE bt.port
                 p == bt_bar(bt.port, prices, do_rebalance, picks, bt.risk,
                             bt.min_trade_cash_pct)
             IN  bt' = [bt EXCEPT !.port = p,
                                  !.prices = prices,
                                  !.traded = (p # bt.port),
                                  !.equity_curve = Append(bt.equity_curve, value(p, prices)),
                                  !.i = bt.i + 1,
                                  !.pre = bt.port,
                                  !.rebalanced = do_rebalance,
                                  !.mid = mid]
    /\ UNCHANGED <<ledgerVars, runVars, callVars>>

\* return {"equity_curve": ..., "final_value": ...}
BacktestReturn ==
    /\ bt.pc = "loop"
    /\ bt.i = bt.N
    /\ LET final_value == IF bt.equity_curve # <<>>
                          THEN bt.equity_curve[Len(bt.equity_curve)]
                          ELSE bt.starting_cash
       IN  bt' = [k \in DOMAIN bt \cup {"final_value"} |->
                     IF k = "final_value" THEN final_value
                     ELSE IF k = "pc" THEN "done" ELSE bt[k]]
    /\ UNCHANGED <<ledgerVars, runVars, callVars>>

NextBacktest == BacktestEnter \/ BacktestBar \/ BacktestReturn

BacktestOnly == IdleLedger /\ InitBacktest /\ IdleRunner /\ IdleCall

SpecBacktest == BacktestOnly /\ [][NextBacktest]_vars

(***************************************************************************)
(* runner_daily.py: load_state, save_state, rebalance_to_picks             *)
(***************************************************************************)
\* the persisted snapshot {"cash": ..., "positions": {...}}
Snapshot(cash, positions) == [cash |-> cash, positions |-> positions]

\* load_state(): cash and positions as stored in the file
load_state(file) == Snapshot(file.cash, file.positions)

\* variant: a compare-and-swap save that refuses to overwrite a file changed since the load
save_state_if_unchanged(file, loaded, cash, positions) ==
    IF file = loaded THEN Snapshot(cash, positions) ELSE file

\* save_state(cash, positions): the file is overwritten with the caller's ledger,
\* whatever it holds now and whatever the caller loaded
save_state(file, loaded, cash, positions) == Snapshot(cash, positions)

\* defect: an unknown name falls back to the aggressive profile
profile_or_aggressive(profile) ==
    IF profile \in DOMAIN PROFILES THEN PROFILES[profile] ELSE PROFILES["aggressive"]

\* RiskAgent.PROFILES.get(profile, RiskAgent.PROFILES["balanced"])
profile_or_balanced(profile) ==
    IF profile \in DOMAIN PROFILES THEN PROFILES[profile] ELSE PROFILES["balanced"]

SymOrder == <<"AAA", "BBB">>

\* held_syms = list(positions.keys())
held_syms_of(positions) == SelectSeq(SymOrder, LAMBDA sym : sym \in DOMAIN positions)

RECURSIVE rb_total_w(_)
\* total_w = sum(max(0.0, w) for _, _, w in picks)
rb_total_w(picks) ==
    IF picks = <<>> THEN RZero
    ELSE RAdd(RMax(RZero, Head(picks).w), rb_total_w(Tail(picks)))

\* defect: the normalized weight is not capped
rb_cap_none(ww, cap) == ww

\* targets[sym] = min(ww, cap)
rb_cap(ww, cap) == RMin(ww, cap)

RECURSIVE rb_raw_targets(_, _, _, _)
\* for sym, _, w in picks: targets[sym] = min(max(0.0, w) * norm, cap); a dict keeps the
\* position of a key's first insertion and the value of its last
rb_raw_targets(picks, norm, cap, targets) ==
    IF picks = <<>> THEN targets
    ELSE LET sym == Head(picks).symbol
             ww == IF RLt(RZero, norm) THEN RMul(RMax(RZero, Head(picks).w), norm) ELSE RZero
             next == [order |-> IF sym \in DOMAIN targets.w THEN targets.order
                                ELSE Append(targets.order, sym),
                      w |-> positions_set(targets.w, sym, rb_cap(ww, cap))]
         IN  rb_raw_targets(Tail(picks), norm, cap, next)

RECURSIVE rb_sum_targets(_, _)
\* sum_w = sum(targets.values())
rb_sum_targets(order, w) ==
    IF order = <<>> THEN RZero ELSE RAdd(w[Head(order)], rb_sum_targets(Tail(order), w))

\* defect: after capping, the weights are rescaled to sum to 1
rb_targets_rescaled(picks, cap) ==
    LET total_w == rb_total_w(picks)
        norm == IF RLt(RZero, total_w) THEN RDiv(ROne, total_w) ELSE RZero
        raw == rb_raw_targets(picks, norm, cap, [order |-> <<>>, w |-> <<>>])
        sum_w == rb_sum_targets(raw.order, raw.w)
    IN  IF RLt(RZero, sum_w)
        THEN [raw EXCEPT !.w = [k \in DOMAIN raw.w |-> RMul(raw.w[k], RDiv(ROne, sum_w))]]
        ELSE raw

\* lines 211-223: normalize weights, cap, scale down if the sum exceeds 1
rb_targets(picks, cap) ==
    LET total_w == rb_total_w(picks)
        norm == IF RLt(RZero, total_w) THEN RDiv(ROne, total_w) ELSE RZero
        raw == rb_raw_targets(picks, norm, cap, [order |-> <<>>, w |-> <<>>])
        sum_w == rb_sum_targets(raw.order, raw.w)
    IN  IF RLt(ROne, sum_w)
        THEN [raw EXCEPT !.w = [k \in DOMAIN raw.w |-> RMul(raw.w[k], RDiv(ROne, sum_w))]]
        ELSE raw

\* one call of port.buy / port.sell made by the pass, with the ledger before and after
Trade(phase, side, symbol, price, arg, before, after) ==
    [phase |-> phase, side |-> side, symbol |-> symbol, price |-> price, arg |-> arg,
     before |-> before, after |-> after]

RECURSIVE rb_stop_loss(_, _, _, _)
\* lines 228-234: enforce stop-loss before target rebalance
rb_stop_loss(st, held_syms, prices, stop_loss_pct) ==
    IF held_syms = <<>> THEN st
    ELSE LET sym == Head(held_syms)
             p == st.port
             px == prices_get(prices, sym)
             hit == /\ sym \in DOMAIN p.positions
                    /\ RLt(RZero, p.positions[sym].qty)
                    /\ RLt(RZero, px)
                    /\ RLt(RZero, p.positions[sym].avg_price)
                    /\ RLe(px, RMul(p.positions[sym].avg_price, RSub(ROne, stop_loss_pct)))
             q == IF hit THEN sell(p, sym, px, p.positions[sym].qty) ELSE p
             next == [port |-> q,
                      trades |-> IF hit
                                 THEN Append(st.trades, Trade("stop", "SELL", sym, px,
                                                              p.positions[sym].qty, p, q))
                                 ELSE st.trades]
         IN  rb_stop_loss(next, Tail(held_syms), prices, stop_loss_pct)

\* defect: held names that are not picked are kept
rb_exits_none(st, held_syms, prices, targets) == st

RECURSIVE rb_exits(_, _, _, _)
\* lines 236-242: sell names not in picks to target 0
rb_exits(st, held_syms, prices, targets) ==
    IF held_syms = <<>> THEN st
    ELSE LET sym == Head(held_syms)
             p == st.port
             px == prices_get(prices, sym)
             go == /\ sym \notin DOMAIN targets.w
                   /\ sym \in DOMAIN p.positions
                   /\ RLt(RZero, p.positions[sym].qty)
                   /\ RLt(RZero, px)
             q == IF go THEN sell(p, sym, px, p.positions[sym].qty) ELSE p
             next == [port |-> q,
                      trades |-> IF go
                                 THEN Append(st.trades, Trade("exit", "SELL", sym, px,
                                                              p.positions[sym].qty, p, q))
                                 ELSE st.trades]
         IN  rb_exits(next, Tail(held_syms), prices, targets)

RECURSIVE rb_adjust(_, _, _, _, _, _)
\* lines 246-261: adjust picks to target values
rb_adjust(st, order, w, prices, eq, thresh) ==
    IF order = <<>> THEN st
    ELSE LET sym == Head(order)
             p == st.port
             px == prices_get(prices, sym)
             held == sym \in DOMAIN p.positions
             cur_val == IF held THEN RMul(p.positions[sym].qty, px) ELSE RZero
             tgt_val == RMul(w[sym], eq)
             delta == RSub(tgt_val, cur_val)
             sell_qty == RMin(IF held THEN p.positions[sym].qty ELSE RZero,
                              RDiv(RAbs(delta), px))
             next ==
                IF RLe(px, RZero) THEN st
                ELSE IF RLt(RAbs(delta), thresh) THEN st
                ELSE IF RLt(RZero, delta)
                     THEN LET q == buy(p, sym, px, delta)
                          IN  [port |-> q,
                               trades |-> Append(st.trades,
                                                 Trade("adjust", "BUY", sym, px, delta, p, q))]
                     ELSE IF RLt(RZero, sell_qty)
                          THEN LET q == sell(p, sym, px, sell_qty)
                               IN  [port |-> q,
                                    trades |-> Append(st.trades,
                                                      Trade("adjust", "SELL", sym, px,
                                                            sell_qty, p, q))]
                          ELSE st
         IN  rb_adjust(next, Tail(order), w, prices, eq, thresh)

\* defect: the stop-loss sweep runs after the exits and the target-driven trades
rb_sweep_last(loaded, picks, prices, cfg) ==
    LET port0 == [Portfolio(loaded.cash, cfg.cost.fee_rate, cfg.cost.fee_fixed,
                            cfg.cost.slippage_bps)
                     EXCEPT !.positions = loaded.positions]
        held_syms == held_syms_of(loaded.positions)
        prof == profile_or_balanced(cfg.profile)
        targets == rb_targets(picks, prof.max_position_pct)
        eq0 == value(port0, prices)
        thresh == RMax(RMul(cfg.min_trade_cash_pct, eq0), ROne)
        exited == rb_exits([port |-> port0, trades |-> <<>>], held_syms, prices, targets)
        eq == value(exited.port, prices)
        adjusted == rb_adjust(exited, targets.order, targets.w, prices, eq, thresh)
        swept == rb_stop_loss(adjusted, held_syms, prices, prof.stop_loss_pct)
    IN  [port |-> swept.port, trades |-> swept.trades, targets |-> targets,
         cap |-> prof.max_position_pct, stop_loss_pct |-> prof.stop_loss_pct,
         eq0 |-> eq0, thresh |-> thresh, eq |-> eq, exited |-> exited.port,
         final_eq |-> value(swept.port, prices)]

\* rebalance_to_picks between load_state() and save_state(): lines 199-264
rb_pass(loaded, picks, prices, cfg) ==
    LET port0 == [Portfolio(loaded.cash, cfg.cost.fee_rate, cfg.cost.fee_fixed,
                            cfg.cost.slippage_bps)
                     EXCEPT !.positions = loaded.positions]
        held_syms == held_syms_of(loaded.positions)
        prof == profile_or_balanced(cfg.profile)
        targets == rb_targets(picks, prof.max_position_pct)
        eq0 == value(port0, prices)
        thresh == RMax(RMul(cfg.min_trade_cash_pct, eq0), ROne)
        swept == rb_stop_loss([port |-> port0, trades |-> <<>>], held_syms, prices,
                              prof.stop_loss_pct)
        exited == rb_exits(swept, held_syms, prices, targets)
        eq == value(exited.port, prices)
        adjusted == rb_adjust(exited, targets.order, targets.w, prices, eq, thresh)
    IN  [port |-> adjusted.port, trades |-> adjusted.trades, targets |-> targets,
         cap |-> prof.max_position_pct, stop_loss_pct |-> prof.stop_loss_pct,
         eq0 |-> eq0, thresh |-> thresh, eq |-> eq, exited |-> exited.port,
         final_eq |-> value(adjusted.port, prices)]

Procs == {1, 2}

Pick(symbol, w) == [symbol |-> symbol, w |-> w]

RunnerPicks ==
    {<<>>,
     <<Pick("AAA", R(1))>>,
     <<Pick("AAA", R(1)), Pick("BBB", R(1))>>,
     <<Pick("BBB", R(3)), Pick("AAA", R(-1))>>,
     <<Pick("BBB", R(0))>>,
     <<Pick("AAA", R(1)), Pick("AAA", R(3))>>}

RunnerQuotes == {R(0), R(4), R(5)}

\* what fetch_ohlcv returns for a symbol: no bars, or bars ending at a close
RunnerBars == {<<>>, <<R(5), R(4)>>, <<R(5)>>}

\* fetch_prices: px = float(series[-1]["close"]) if series else 0.0; prices[s] = px
fetch_prices(symbols, bars) ==
    [sym \in symbols |-> IF bars[sym] # <<>> THEN bars[sym][Len(bars[sym])] ELSE RZero]

RunnerSnapshots ==
    {Snapshot(R(1000), NoPositions),
     Snapshot(R(950), [sym \in {"AAA"} |-> Position(R(10), R(5))]),
     Snapshot(R(800), [sym \in {"AAA", "BBB"} |->
                          IF sym = "AAA" THEN Position(R(30), R(5))
                          ELSE Position(R(10), R(5))]),
     Snapshot(R(800), [sym \in {"AAA", "BBB"} |->
                          IF sym = "AAA" THEN Position(Frac(918, 100), R(5))
                          ELSE Position(R(10), R(5))])}

RunnerProfiles == {"balanced", "aggressive", "bogus"}

RunnerCostModels == {CostModel(R(0), R(0), R(0)), CostModel(Frac(1, 4), R(1), R(0))}

RunnerMinTradeCashPct == Frac(2, 1000)

InitRunner ==
    /\ state_file \in RunnerSnapshots
    /\ \E profile \in RunnerProfiles, cm \in RunnerCostModels,
          bars \in [Symbols -> RunnerBars] :
          run_cfg = [profile |-> profile, cost |-> cm,
                     min_trade_cash_pct |-> RunnerMinTradeCashPct,
                     bars |-> bars, prices |-> fetch_prices(Symbols, bars),
                     snapshot0 |-> state_file]
    /\ run = [p \in Procs |-> [pc |-> "start"]]

\* invocations that have finished (saved the state file)
NumDone == Cardinality({q \in Procs : run[q].pc = "done"})

\* rebalance_to_picks(picks, ...): cash, positions = load_state()
RunnerLoad(p) ==
    /\ run[p].pc = "start"
    /\ \E picks \in RunnerPicks :
          run' = [run EXCEPT ![p] = [pc |-> "loaded", picks |-> picks,
                                     loaded |-> load_state(state_file),
                                     saved_before_load |-> NumDone,
                                     save_no |-> 0]]
    /\ UNCHANGED <<state_file, run_cfg, ledgerVars, btVars, callVars>>

\* fetch_prices and the three trading loops, on the invocation's own Portfolio
RunnerRebalance(p) ==
    /\ run[p].pc = "loaded"
    /\ run' = [run EXCEPT ![p] =
                  [pc |-> "rebalanced", picks |-> run[p].picks, loaded |-> run[p].loaded,
                   saved_before_load |-> run[p].saved_before_load, save_no |-> 0,
                   pass |-> rb_pass(run[p].loaded, run[p].picks, run_cfg.prices, run_cfg)]]
    /\ UNCHANGED <<state_file, run_cfg, ledgerVars, btVars, callVars>>

\* save_state(port.cash, port.positions); return final_eq
RunnerSave(p) ==
    /\ run[p].pc = "rebalanced"
    /\ state_file' = save_state(state_file, run[p].loaded,
                                run[p].pass.port.cash, run[p].pass.port.positions)
    /\ run' = [run EXCEPT ![p].pc = "done",
                          ![p].save_no = NumDone + 1]
    /\ UNCHANGED <<run_cfg, ledgerVars, btVars, callVars>>

NextRunner == \E p \in Procs : RunnerLoad(p) \/ RunnerRebalance(p) \/ RunnerSave(p)

RunnerOnly == IdleLedger /\ IdleBacktest /\ InitRunner /\ IdleCall

SpecRunner == RunnerOnly /\ [][NextRunner]_vars

(***************************************************************************)
(* runner_gemini.py: apply_decisions and the pass of main() around it      *)
(***************************************************************************)
Decision(symbol, action, target_weight) ==
    [symbol |-> symbol, action |-> action, target_weight |-> target_weight]

\* str(d.get("symbol", "")).upper()
Upper(sym) == IF sym = "aaa" THEN "AAA" ELSE IF sym = "bbb" THEN "BBB" ELSE sym

RECURSIVE ad_picks(_)
\* picks: the (symbol, weight) of the BUY and HOLD decisions with a weight > 0
ad_picks(decisions) ==
    IF decisions = <<>> THEN <<>>
    ELSE LET d == Head(decisions)
             sym == Upper(d.symbol)
             keep == sym # "" /\ d.action \in {"BUY", "HOLD"} /\ RLt(RZero, d.target_weight)
         IN  (IF keep THEN <<Pick(sym, d.target_weight)>> ELSE <<>>)
             \o ad_picks(Tail(decisions))

RECURSIVE ad_total(_)
\* sum(w for _, w in picks)
ad_total(picks) ==
    IF picks = <<>> THEN RZero ELSE RAdd(Head(picks).w, ad_total(Tail(picks)))

RECURSIVE ad_targets(_, _, _)
\* targets = {sym: w / total for sym, w in picks}
ad_targets(picks, total, targets) ==
    IF picks = <<>> THEN targets
    ELSE LET sym == Head(picks).symbol
             next == [order |-> IF sym \in DOMAIN targets.w THEN targets.order
                                ELSE Append(targets.order, sym),
                      w |-> positions_set(targets.w, sym, RDiv(Head(picks).w, total))]
         IN  ad_targets(Tail(picks), total, next)

\* apply_decisions: lines 168-208; its two loops are those of rebalance_to_picks
apply_decisions(port, prices, decisions, max_positions, min_trade_cash_pct) ==
    LET all == ad_picks(decisions)
        picks == SubSeq(all, 1, IF max_positions < Len(all) THEN max_positions ELSE Len(all))
        sum == ad_total(picks)
        total == IF sum = RZero THEN ROne ELSE sum
        targets == ad_targets(picks, total, [order |-> <<>>, w |-> <<>>])
        eq0 == value(port, prices)
        thresh == RMax(RMul(min_trade_cash_pct, eq0), ROne)
        exited == rb_exits([port |-> port, trades |-> <<>>], held_syms_of(port.positions),
                           prices, targets)
        eq == value(exited.port, prices)
        adjusted == rb_adjust(exited, targets.order, targets.w, prices, eq, thresh)
    IN  [port |-> adjusted.port, trades |-> adjusted.trades, targets |-> targets,
         eq0 |-> eq0, thresh |-> thresh, eq |-> eq]

\* what the LLM (or the momentum fallback) hands to apply_decisions
GeminiDecisions ==
    {<<>>,
     <<Decision("aaa", "BUY", Frac(3, 100))>>,
     <<Decision("AAA", "BUY", Frac(1, 2)), Decision("BBB", "HOLD", Frac(1, 2))>>,
     <<Decision("AAA", "SELL", R(1)), Decision("BBB", "BUY", Frac(2, 100))>>,
     <<Decision("AAA", "BUY", Frac(2, 100)), Decision("BBB", "BUY", Frac(2, 100))>>,
     <<Decision("", "BUY", R(1)), Decision("BBB", "HOLD", R(0))>>}

GeminiMaxPositions == {1, 2}

InitGemini ==
    /\ state_file \in RunnerSnapshots
    /\ \E cm \in RunnerCostModels, bars \in [Symbols -> RunnerBars],
          max_positions \in GeminiMaxPositions :
          run_cfg = [cost |-> cm, min_trade_cash_pct |-> RunnerMinTradeCashPct,
                     bars |-> bars, prices |-> fetch_prices(Symbols, bars),
                     max_positions |-> max_positions]
    /\ run = [pc |-> "start"]

\* main(): load_state, the decisions from the LLM or the fallback
GeminiDecide ==
    /\ run.pc = "start"
    /\ \E decisions \in GeminiDecisions :
          run' = [pc |-> "decided", decisions |-> decisions, loaded |-> load_state(state_file)]
    /\ UNCHANGED <<state_file, run_cfg, ledgerVars, btVars, callVars>>

\* main(): port = Portfolio(...); apply_decisions(port, prices, decisions, ...)
GeminiApply ==
    /\ run.pc = "decided"
    /\ LET port0 == [Portfolio(run.loaded.cash, run_cfg.cost.fee_rate,
                               run_cfg.cost.fee_fixed, run_cfg.cost.slippage_bps)
                        EXCEPT !.positions = run.loaded.positions]
       IN  run' = [pc |-> "applied", decisions |-> run.decisions, loaded |-> run.loaded,
                   pass |-> apply_decisions(port0, run_cfg.prices, run.decisions,
                                            run_cfg.max_positions,
                                            run_cfg.min_trade_cash_pct)]
    /\ UNCHANGED <<state_file, run_cfg, ledgerVars, btVars, callVars>>

\* main(): save_state(port.cash, port.positions)
GeminiSave ==
    /\ run.pc = "applied"
    /\ state_file' = save_state(state_file, run.loaded, run.pass.port.cash,
                                run.pass.port.positions)
    /\ run' = [run EXCEPT !.pc = "done"]
    /\ UNCHANGED <<run_cfg, ledgerVars, btVars, callVars>>

NextGemini == GeminiDecide \/ GeminiApply \/ GeminiSave

GeminiOnly == IdleLedger /\ IdleBacktest /\ InitGemini /\ IdleCall

SpecGemini == GeminiOnly /\ [][NextGemini]_vars

(***************************************************************************)
(* The same profile name given to backtest() and to the live runner        *)
(***************************************************************************)
ProfileNames == {"conservative", "balanced", "aggressive", "bogus", "Balanced", ""}

InitProfile ==
    /\ state_file = Snapshot(R(800), [sym \in {"AAA", "BBB"} |->
                                         IF sym = "AAA" THEN Position(R(30), R(5))
                                         ELSE Position(R(10), R(4))])
    /\ \E name \in ProfileNames, max_holdings \in BtMaxHoldings :
          /\ bt = [pc |-> "call", symbols |-> BtSymbols,
                   ohlcv_map |-> [sym \in {"AAA", "BBB"} |-> [k \in 1..NumBars |-> R(5)]],
                   starting_cash |-> BtStartingCash, profile |-> name,
                   max_holdings |-> max_holdings, rebalance_every |-> 1,
                   cost |-> CostModel(R(0), R(0), R(0)),
                   min_trade_cash_pct |-> BtMinTradeCashPct, ranked |-> BtSymbols]
          /\ run_cfg = [profile |-> name, cost |-> CostModel(R(0), R(0), R(0)),
                        min_trade_cash_pct |-> RunnerMinTradeCashPct,
                        bars |-> [sym \in Symbols |-> <<R(5), R(4)>>],
                        prices |-> fetch_prices(Symbols, [sym \in Symbols |-> <<R(5), R(4)>>]),
                        snapshot0 |-> state_file]
    /\ run = [p \in Procs |-> [pc |-> "start"]]

NextProfile == NextBacktest \/ NextRunner

ProfileOnly == IdleLedger /\ InitProfile /\ IdleCall

SpecProfile == ProfileOnly /\ [][NextProfile]_vars

(***************************************************************************)
(* predict_cli.py: compute_weights                                         *)
(***************************************************************************)
MaxInt(a, b) == IF a > b THEN a ELSE b
MinInt(a, b) == IF a < b THEN a ELSE b

\* ranked[: max(0, top_n)]
cw_picks(ranked, top_n) == SubSeq(ranked, 1, MinInt(Len(ranked), MaxInt(0, top_n)))

\* sum(max(0.0, s) for _, s in picks)
RECURSIVE cw_ssum(_)
cw_ssum(picks) ==
    IF picks = <<>> THEN RZero
    ELSE RAdd(RMax(RZero, Head(picks)[2]), cw_ssum(Tail(picks)))

\* a ranked entry is (symbol, score); a returned entry is (symbol, score, weight).
\* In score mode the weight divides the score itself, not max(0.0, score), by ssum.
compute_weights(ranked, top_n, mode) ==
    LET picks == cw_picks(ranked, top_n)
        ssum == cw_ssum(picks)
    IN  IF picks = <<>> THEN <<>>
        ELSE IF mode = "score" /\ RLt(RZero, ssum)
             THEN [k \in 1..Len(picks) |->
                      <<picks[k][1], picks[k][2], RDiv(picks[k][2], ssum)>>]
             ELSE [k \in 1..Len(picks) |->
                      <<picks[k][1], picks[k][2], Frac(1, Len(picks))>>]

WeightSymbols == <<"AAA", "BBB", "CCC">>
WeightScores == {R(-1), RZero, Frac(1, 2), R(1)}
WeightTopN == (-1)..4
WeightModes == {"equal", "score", "other"}

\* ranked lists as score_universe returns them: sorted by score, highest first
WeightRankings ==
    {q \in UNION {[1..n -> WeightScores] : n \in 0..Len(WeightSymbols)} :
        \A k \in 1..(Len(q) - 1) : RLe(q[k + 1], q[k])}

InitWeights ==
    \E q \in WeightRankings, top_n \in WeightTopN, mode \in WeightModes :
        call = [pc |-> "call", fn |-> "compute_weights",
                ranked |-> [k \in 1..Len(q) |-> <<WeightSymbols[k], q[k]>>],
                top_n |-> top_n, mode |-> mode]

ComputeWeights ==
    /\ call.pc = "call"
    /\ call.fn = "compute_weights"
    /\ call' = [pc |-> "returned", fn |-> call.fn, ranked |-> call.ranked,
                top_n |-> call.top_n, mode |-> call.mode,
                result |-> compute_weights(call.ranked, call.top_n, call.mode)]
    /\ UNCHANGED <<ledgerVars, btVars, runVars>>

NextWeights == ComputeWeights

WeightsOnly == IdleLedger /\ IdleBacktest /\ IdleRunner /\ InitWeights

SpecWeights == WeightsOnly /\ [][NextWeights]_vars

(***************************************************************************)
(* tools/eval_model.py: compute_metrics                                    *)
(***************************************************************************)
RECURSIVE RSum(_)
RSum(q) == IF q = <<>> THEN RZero ELSE RAdd(Head(q), RSum(Tail(q)))

\* rets: one simple return per step, 0.0 when the previous valuation is not positive
cm_rets(equity_curve) ==
    [i \in 1..(Len(equity_curve) - 1) |->
        IF RLt(RZero, equity_curve[i])
        THEN RDiv(RSub(equity_curve[i + 1], equity_curve[i]), equity_curve[i])
        ELSE RZero]

cm_mean(rets) == IF rets = <<>> THEN RZero ELSE RDiv(RSum(rets), R(Len(rets)))

cm_var(rets) ==
    IF rets = <<>> THEN RZero
    ELSE LET m == cm_mean(rets)
         IN  RDiv(RSum([i \in 1..Len(rets) |-> RMul(RSub(rets[i], m), RSub(rets[i], m))]),
                  R(Len(rets)))

\* mean_ret / std * 252 ** 0.5 with std = var ** 0.5 is not rational: the ratio is kept as
\* its sign and its square, 252 * mean_ret^2 / var; it is 0.0 unless std > 0, i.e. var > 0
SharpeZero == [sign |-> 0, square |-> RZero]

cm_sharpe(mean_ret, var) ==
    IF RLt(RZero, var)
    THEN [sign |-> IF mean_ret[1] > 0 THEN 1 ELSE IF mean_ret[1] < 0 THEN -1 ELSE 0,
          square |-> RDiv(RMul(R(252), RMul(mean_ret, mean_ret)), var)]
    ELSE SharpeZero

\* the max drawdown loop over the rest of the curve, with peak and max_dd so far
RECURSIVE cm_max_dd(_, _, _)
cm_max_dd(rest, peak, max_dd) ==
    IF rest = <<>> THEN max_dd
    ELSE LET eq == Head(rest)
             pk == IF RLt(peak, eq) THEN eq ELSE peak
             dd == IF RLt(RZero, pk) THEN RDiv(RSub(pk, eq), pk) ELSE RZero
         IN  cm_max_dd(Tail(rest), pk, IF RLt(max_dd, dd) THEN dd ELSE max_dd)

cm_wins(rets) == Cardinality({i \in 1..Len(rets) : RLt(RZero, rets[i])})

\* the returned dict, or the exception raised by the division of line 26
compute_metrics(equity_curve, starting_cash) ==
    IF equity_curve = <<>>
    THEN [total_return |-> RZero, sharpe_ratio |-> SharpeZero, max_drawdown |-> RZero,
          win_rate |-> RZero, final_equity |-> starting_cash]
    ELSE IF starting_cash = RZero THEN [raised |-> "ZeroDivisionError"]
    ELSE LET final == equity_curve[Len(equity_curve)]
             rets == cm_rets(equity_curve)
         IN  [total_return |-> RDiv(RSub(final, starting_cash), starting_cash),
              sharpe_ratio |-> cm_sharpe(cm_mean(rets), cm_var(rets)),
              max_drawdown |-> cm_max_dd(equity_curve, equity_curve[1], RZero),
              win_rate |-> IF rets = <<>> THEN RZero ELSE Frac(cm_wins(rets), Len(rets)),
              final_equity |-> final,
              num_periods |-> Len(equity_curve)]

MaxCurveLen == 3
MetricValuations == {R(-4), RZero, R(4), R(5), R(8)}
MetricCurves == UNION {[1..n -> MetricValuations] : n \in 0..MaxCurveLen}
MetricStartingCash == {RZero, R(5), R(10)}

InitMetrics ==
    \E curve \in MetricCurves, cash \in MetricStartingCash :
        call = [pc |-> "call", fn |-> "compute_metrics",
                equity_curve |-> curve, starting_cash |-> cash]

ComputeMetrics ==
    /\ call.pc = "call"
    /\ call.fn = "compute_metrics"
    /\ call' = [pc |-> "returned", fn |-> call.fn, equity_curve |-> call.equity_curve,
                starting_cash |-> call.starting_cash,
                result |-> compute_metrics(call.equity_curve, call.starting_cash)]
    /\ UNCHANGED <<ledgerVars, btVars, runVars>>

NextMetrics == ComputeMetrics

MetricsOnly == IdleLedger /\ IdleBacktest /\ IdleRunner /\ InitMetrics

SpecMetrics == MetricsOnly /\ [][NextMetrics]_vars

(***************************************************************************)
(* core/orchestrator.py: Orchestrator.run_once, with agents/technical.py   *)
(* and agents/risk.py                                                      *)
(***************************************************************************)
TradingSignal(symbol, signal, confidence, stop_loss, reasoning, timestamp) ==
    [symbol |-> symbol, signal |-> signal, confidence |-> confidence,
     price_target |-> "None", stop_loss |-> stop_loss, reasoning |-> reasoning,
     timestamp |-> timestamp]

\* the prediction the technical agent gets from its model: the stub's HOLD when there are
\* no feature rows, else the score with confidence min(1.0, abs(score))
NoFeatures == "no features"

ta_pred(score) ==
    IF score = NoFeatures THEN [confidence |-> Frac(1, 2), price_change |-> RZero]
    ELSE [confidence |-> RMin(ROne, RAbs(score)), price_change |-> score]

\* TechnicalAnalysisAgent.analyze, from the prediction on
ta_analyze(pred) ==
    [strength |-> RMax(RZero, RMin(ROne, RAdd(Frac(1, 2), pred.price_change))),
     confidence |-> pred.confidence]

\* TechnicalAnalysisAgent.signal
ta_signal(symbol, pred) ==
    LET info == ta_analyze(pred)
        action == IF RLt(Frac(55, 100), info.strength) THEN "BUY"
                  ELSE IF RLt(info.strength, Frac(45, 100)) THEN "SELL" ELSE "HOLD"
        conf_est == RMax(info.confidence,
                         RMul(RAbs(RSub(info.strength, Frac(1, 2))), R(2)))
    IN  TradingSignal(symbol, action, RMax(RZero, RMin(ROne, conf_est)), "None",
                      "tech+mdm", "None")

\* defect: the stop is left unset whatever the price
risk_apply_no_stop(profile, sig, price) ==
    TradingSignal(sig.symbol, sig.signal, RMin(ROne, sig.confidence), "None",
                  <<sig.reasoning, " | risk:", profile.name>>, sig.timestamp)

\* RiskAgent.apply: "if price" is false for 0.0 only
risk_apply(profile, sig, price) ==
    TradingSignal(sig.symbol, sig.signal, RMin(ROne, sig.confidence),
                  IF price # RZero THEN RMul(price, RSub(ROne, profile.stop_loss_pct))
                  ELSE "None",
                  <<sig.reasoning, " | risk:", profile.name>>, sig.timestamp)

OrchSymbols == {"AAPL", "AAA"}
OrchScores == {NoFeatures, R(-1), Frac(-1, 10), Frac(-1, 20), RZero, Frac(1, 20),
               Frac(1, 10), R(2)}
OrchLastPrices == {RZero, R(-5), Frac(1, 2), R(100)}

\* Orchestrator([TechnicalAnalysisAgent(), RiskAgent(profile)]).run_once(symbol, ohlcv,
\* last_price): RiskAgent's constructor accepts the three canonical names only
InitOrchestrator ==
    \E symbol \in OrchSymbols, score \in OrchScores, price \in OrchLastPrices,
       name \in DOMAIN PROFILES :
        call = [pc |-> "call", fn |-> "run_once", profile |-> name, symbol |-> symbol,
                score |-> score, last_price |-> price]

\* lines 19-21: technical first
RunTechnical ==
    /\ call.pc = "call"
    /\ call.fn = "run_once"
    /\ call' = [pc |-> "tech", fn |-> call.fn, profile |-> call.profile,
                symbol |-> call.symbol, score |-> call.score,
                last_price |-> call.last_price,
                tech_sig |-> ta_signal(call.symbol, ta_pred(call.score))]
    /\ UNCHANGED <<ledgerVars, btVars, runVars>>

\* lines 23-35: RiskAgent.signal on the technical signal, copied with a timestamp
RunRisk ==
    /\ call.pc = "tech"
    /\ call.fn = "run_once"
    /\ LET final_sig == risk_apply(PROFILES[call.profile], call.tech_sig, call.last_price)
       IN  call' = [pc |-> "returned", fn |-> call.fn, profile |-> call.profile,
                    symbol |-> call.symbol, score |-> call.score,
                    last_price |-> call.last_price, tech_sig |-> call.tech_sig,
                    result |-> [final_sig EXCEPT !.timestamp = "time.time()"]]
    /\ UNCHANGED <<ledgerVars, btVars, runVars>>

NextOrchestrator == RunTechnical \/ RunRisk

OrchestratorOnly == IdleLedger /\ IdleBacktest /\ IdleRunner /\ InitOrchestrator

SpecOrchestrator == OrchestratorOnly /\ [][NextOrchestrator]_vars

(***************************************************************************)
(* Ledger claims                                                           *)
(***************************************************************************)
ZeroFriction(p) ==
    /\ p.fee_rate = RZero
    /\ p.fee_fixed = RZero
    /\ p.slippage_bps = RZero

\* C1: after any sequence of buy and sell calls with arbitrary arguments and any
\* non-negative cost parameters, the ledger's cash is >= 0.
C1_CashNeverNegative == RLe(RZero, ledger.cash)

\* C1 witness: a buy asking for more than the available cash was executed (and capped)
\* after an earlier call.
C1_Witness ==
    /\ nops >= 2
    /\ last.op = "buy"
    /\ RLt(last.pre.cash, last.arg)
    /\ RLt(RZero, last.pre.cash)
    /\ ledger # last.pre
    /\ ledger.cash = RZero

\* C6: every recorded position has quantity = 0 exactly when its average cost = 0.
C6_QtyZeroIffAvgZero ==
    \A s \in DOMAIN ledger.positions :
        (ledger.positions[s].qty = RZero) <=> (ledger.positions[s].avg_price = RZero)

\* C6 witness: a position bought earlier has just been sold down to zero while another
\* symbol is still held.
C6_Witness ==
    /\ last.op = "sell"
    /\ RLt(RZero, qty_of(last.pre, last.symbol))
    /\ last.pre.positions[last.symbol].avg_price # RZero
    /\ ledger.positions[last.symbol] = Position(RZero, RZero)
    /\ \E s \in DOMAIN ledger.positions : RLt(RZero, ledger.positions[s].qty)

\* C7: every position quantity is >= 0, and an executed sell of quantity q removes
\* exactly min(held quantity, q) shares.
C7_NoShortSelling ==
    /\ \A s \in DOMAIN ledger.positions : RLe(RZero, ledger.positions[s].qty)
    /\ (/\ last.op = "sell"
        /\ RLt(RZero, last.arg)
        /\ RLt(RZero, last.price)
        /\ RLt(RZero, qty_of(last.pre, last.symbol)))
       => qty_of(ledger, last.symbol)
            = RSub(qty_of(last.pre, last.symbol),
                   RMin(qty_of(last.pre, last.symbol), last.arg))

\* C7 witness: a sell asked for more shares than were held and emptied the position.
C7_Witness ==
    /\ last.op = "sell"
    /\ RLt(RZero, last.price)
    /\ RLt(RZero, qty_of(last.pre, last.symbol))
    /\ RLt(qty_of(last.pre, last.symbol), last.arg)
    /\ qty_of(ledger, last.symbol) = RZero

BuyIsDegenerate ==
    \/ RLe(last.arg, RZero)
    \/ RLe(last.price, RZero)
    \/ RLe(RMin(last.pre.cash, last.arg), last.pre.fee_fixed)

SellIsDegenerate ==
    \/ RLe(last.arg, RZero)
    \/ RLe(last.price, RZero)
    \/ last.symbol \notin DOMAIN last.pre.positions
    \/ ~RLt(RZero, qty_of(last.pre, last.symbol))

\* C8: a buy with amount_cash <= 0, price <= 0 or capped spend <= fee_fixed, and a sell
\* with qty <= 0, price <= 0 or no position of quantity > 0, leaves the whole ledger
\* (cash, every position, the set of position entries) unchanged.
C8_DegenerateCallsAreNoOps ==
    /\ (last.op = "buy" /\ BuyIsDegenerate) => ledger = last.pre
    /\ (last.op = "sell" /\ SellIsDegenerate) => ledger = last.pre

\* C8 witness: a buy with positive price and amount, and cash in hand, whose capped
\* spend does not exceed the fixed fee.
C8_Witness ==
    /\ last.op = "buy"
    /\ RLt(RZero, last.arg)
    /\ RLt(RZero, last.price)
    /\ RLt(RZero, last.pre.cash)
    /\ RLe(RMin(last.pre.cash, last.arg), last.pre.fee_fixed)
    /\ DOMAIN last.pre.positions # {}

\* C9: with zero fee_rate, fee_fixed and slippage_bps, a buy at quote P > 0 followed
\* at once by a sell of exactly the quantity acquired at the same quote restores cash
\* and the symbol's quantity to their values before the buy.
C9_RoundTrip ==
    (/\ last.op = "sell"
     /\ last.roundtrip
     /\ RLt(RZero, last.price)
     /\ ZeroFriction(ledger))
    => /\ ledger.cash = last.cash0
       /\ qty_of(ledger, last.symbol) = last.qty0

\* C9 witness: such a round trip on a symbol that was already held, with a positive
\* quantity acquired and sold.
C9_Witness ==
    /\ last.op = "sell"
    /\ last.roundtrip
    /\ RLt(RZero, last.price)
    /\ ZeroFriction(ledger)
    /\ RLt(RZero, last.arg)
    /\ RLt(RZero, last.qty0)
    /\ ledger # last.pre

Frictional(p) == RLt(RZero, p.fee_rate) \/ RLt(RZero, p.slippage_bps)

\* C10: with fee_fixed = 0 and fee_rate > 0 or slippage_bps > 0, after the same calls
\* the frictional ledger's cash is <= the zero-friction ledger's cash, and every sell
\* that credits positive proceeds without friction credits strictly less with it.
C10_FrictionReducesProceeds ==
    (ledger.fee_fixed = RZero /\ Frictional(ledger))
    => /\ RLe(ledger.cash, zledger.cash)
       /\ (last.op = "sell" /\ RLt(RZero, RSub(zledger.cash, last.zpre.cash)))
          => RLt(RSub(ledger.cash, last.pre.cash), RSub(zledger.cash, last.zpre.cash))

BuyExecuted ==
    /\ last.op = "buy"
    /\ RLt(RZero, last.price)
    /\ RLt(RZero, last.arg)
    /\ RLt(last.pre.fee_fixed, RMin(last.pre.cash, last.arg))

\* C11: an executed buy (price > 0, amount > 0, spend = min(cash, amount) > fee_fixed)
\* debits cash by exactly spend, adds (spend - fee_fixed) / (price x (1 + slippage_bps
\* / 10000) x (1 + fee_rate)) shares, and sets the average cost to (old_avg x old_qty +
\* price x added) / (old_qty + added) with the quoted price; after the first buy of a
\* symbol the average cost is the quoted price.
C11_BuyAccounting ==
    BuyExecuted =>
        LET spend == RMin(last.pre.cash, last.arg)
            added == RDiv(RSub(spend, last.pre.fee_fixed),
                          RMul(RMul(last.price,
                                    RAdd(ROne, RDiv(last.pre.slippage_bps, R(10000)))),
                               RAdd(ROne, last.pre.fee_rate)))
            old == positions_get(last.pre.positions, last.symbol)
            new == ledger.positions[last.symbol]
        IN  /\ ledger.cash = RSub(last.pre.cash, spend)
            /\ new.qty = RAdd(old.qty, added)
            /\ new.avg_price = RDiv(RAdd(RMul(old.avg_price, old.qty),
                                         RMul(last.price, added)),
                                    RAdd(old.qty, added))
            /\ old.qty = RZero => new.avg_price = last.price

\* C11 witness: an executed buy under fee_rate, fee_fixed and slippage that tops up a
\* position held at a different average cost, and leaves cash in hand.
C11_Witness ==
    /\ BuyExecuted
    /\ RLt(RZero, ledger.fee_rate)
    /\ RLt(RZero, ledger.fee_fixed)
    /\ RLt(RZero, ledger.slippage_bps)
    /\ RLt(RZero, qty_of(last.pre, last.symbol))
    /\ last.pre.positions[last.symbol].avg_price # last.price
    /\ RLt(RZero, ledger.cash)

SellExecuted ==
    /\ last.op = "sell"
    /\ RLt(RZero, last.price)
    /\ RLt(RZero, last.arg)
    /\ RLt(RZero, qty_of(last.pre, last.symbol))

\* the net proceeds before the floor at zero
SellRawNet(sell_qty) ==
    RSub(RMul(RMul(RMul(sell_qty, last.price),
                   RSub(ROne, RDiv(last.pre.slippage_bps, R(10000)))),
              RSub(ROne, last.pre.fee_rate)),
         last.pre.fee_fixed)

\* C12: an executed sell with sell_qty = min(held, qty) credits cash with exactly
\* max(0, sell_qty x price x (1 - slippage_bps / 10000) x (1 - fee_rate) - fee_fixed),
\* so cash never decreases; the quantity drops by sell_qty; the average cost becomes 0
\* exactly when the remaining quantity is 0 and is unchanged otherwise.
C12_SellAccounting ==
    SellExecuted =>
        LET old == last.pre.positions[last.symbol]
            sell_qty == RMin(old.qty, last.arg)
            new == ledger.positions[last.symbol]
        IN  /\ ledger.cash = RAdd(last.pre.cash, RMax(RZero, SellRawNet(sell_qty)))
            /\ RLe(last.pre.cash, ledger.cash)
            /\ new.qty = RSub(old.qty, sell_qty)
            /\ (new.avg_price = RZero) <=> (new.qty = RZero)
            /\ new.qty # RZero => new.avg_price = old.avg_price

\* C12 witness: a partial sell whose net proceeds before the floor are negative (the
\* fixed fee exceeds the notional): cash is unchanged, the rest of the position keeps
\* its average cost.
C12_Witness ==
    /\ SellExecuted
    /\ RLt(SellRawNet(RMin(qty_of(last.pre, last.symbol), last.arg)), RZero)
    /\ RLt(RZero, qty_of(ledger, last.symbol))
    /\ qty_of(ledger, last.symbol) # qty_of(last.pre, last.symbol)
    /\ ledger.cash = last.pre.cash

(***************************************************************************)
(* Audit-log and valuation claims                                          *)
(***************************************************************************)
\* quantity x quote of one symbol, the average cost standing in for a missing quote
HeldValue(p, prices, sym) ==
    IF sym \notin DOMAIN p.positions THEN RZero
    ELSE IF sym \in DOMAIN prices THEN RMul(p.positions[sym].qty, prices[sym])
    ELSE RMul(p.positions[sym].qty, p.positions[sym].avg_price)

\* C13: value(prices) returns cash plus the sum over all positions of quantity x
\* prices[symbol], with the position's average cost in place of the price for exactly
\* the held symbols that have no entry in prices; cash and positions are not modified.
C13_ValueWithFallback ==
    last.op = "value" =>
        /\ last.returned = RAdd(ledger.cash,
                                RAdd(HeldValue(ledger, last.prices, "AAA"),
                                     HeldValue(ledger, last.prices, "BBB")))
        /\ ledger = last.pre

\* C13 witness: a valuation of two held positions, one quoted away from its average
\* cost and one without a quote.
C13_Witness ==
    /\ last.op = "value"
    /\ \E a, b \in DOMAIN ledger.positions :
          /\ a \in DOMAIN last.prices
          /\ b \notin DOMAIN last.prices
          /\ RLt(RZero, ledger.positions[a].qty)
          /\ RLt(RZero, ledger.positions[b].qty)
          /\ last.prices[a] # ledger.positions[a].avg_price

\* C17: with a trade-log path configured, a buy or sell whose audit write fails still
\* returns normally and leaves cash and positions exactly as when every write
\* succeeds; no trade is rolled back.
C17_LogFailureIsHarmless ==
    /\ last.op \in {"buy", "sell"} => ~last.raised
    /\ trade_log.path # "" =>
          /\ ledger.cash = zledger.cash
          /\ ledger.positions = zledger.positions

\* C17 witness: an executed trade whose audit write failed, after an earlier trade
\* that was logged; the ledger moved although the log did not.
C17_Witness ==
    /\ last.op \in {"buy", "sell"}
    /\ trade_log.path # ""
    /\ last.attempted
    /\ ~last.io_ok
    /\ ledger # last.pre
    /\ Len(trade_log.lines) = 1
    /\ nops >= 2

(***************************************************************************)
(* Backtest claims                                                         *)
(***************************************************************************)
BarDone == bt.pc \in {"loop", "done"} /\ "i" \in DOMAIN bt /\ bt.i >= 1

\* C2: on every bar, any held position whose close is > 0 and <= its average cost
\* x (1 - stop_loss_pct) has quantity 0 by the time the bar's valuation is appended,
\* whether or not the symbol is a pick.
C2_StopLossEveryBar ==
    BarDone =>
        \A sym \in DOMAIN bt.port.positions :
            LET pos == bt.port.positions[sym]
                px == prices_get(bt.prices, sym)
            IN  (/\ RLt(RZero, px)
                 /\ RLe(px, RMul(pos.avg_price, RSub(ROne, bt.risk.stop_loss_pct))))
                => pos.qty = RZero

\* the symbols of the list that have a series, and the length of the shortest one
Listed == {sym \in DOMAIN bt.ohlcv_map : \E k \in 1..Len(bt.symbols) : bt.symbols[k] = sym}
ShortestSeries ==
    IF Listed = {} THEN 0
    ELSE CHOOSE n \in {Len(bt.ohlcv_map[sym]) : sym \in Listed} :
            \A sym \in Listed : n <= Len(bt.ohlcv_map[sym])

\* the k-th close of a symbol among its last ShortestSeries bars
LastCloses(sym, k) == bt.ohlcv_map[sym][Len(bt.ohlcv_map[sym]) - ShortestSeries + k]

RECURSIVE MarkedAt(_, _)
\* cash plus every held quantity at the symbol's k-th close
MarkedAt(S, k) ==
    IF S = {} THEN bt.port.cash
    ELSE LET sym == CHOOSE x \in S : TRUE
         IN  RAdd(RMul(bt.port.positions[sym].qty, LastCloses(sym, k)),
                  MarkedAt(S \ {sym}, k))

\* steps taken towards the return: the call, then one per bar, then the return
BtProgress(b) ==
    IF b.pc = "call" THEN 0 ELSE IF b.pc = "loop" THEN 1 + b.i ELSE NumBars + 2

C15_Curve ==
    /\ bt.pc = "loop" => bt.i <= bt.N /\ bt.N <= NumBars
    /\ BarDone =>
          /\ Len(bt.equity_curve) = bt.i
          /\ bt.equity_curve[bt.i] = MarkedAt(DOMAIN bt.port.positions, bt.i)
    /\ bt.pc = "done" =>
          /\ Len(bt.equity_curve) = ShortestSeries
          /\ bt.final_value = IF ShortestSeries = 0 THEN bt.starting_cash
                              ELSE bt.equity_curve[ShortestSeries]

\* Termination is checked as bounded progress: while the loop runs i <= N, so the bar
\* step or the return is enabled, and every step moves strictly closer to the return.
\* C15: when every listed symbol has a series and N is the length of the shortest,
\* backtest terminates and returns an equity curve of exactly N points, point i valued
\* at each symbol's i-th close among its last N bars, with final_value the last point;
\* when no listed symbol has a series, or N = 0, the curve is empty and final_value is
\* starting_cash.
C15_CurveOfNPoints ==
    /\ []C15_Curve
    /\ [][BtProgress(bt') > BtProgress(bt)]_vars

\* C15 witness: a returned run over series of different lengths, the longer one not
\* constant, that traded and ended away from starting_cash.
C15_Witness ==
    /\ bt.pc = "done"
    /\ ShortestSeries = NumBars - 1
    /\ ShortestSeries > 0
    /\ Len(bt.ohlcv_map["AAA"]) = NumBars
    /\ bt.ohlcv_map["AAA"][1] # bt.ohlcv_map["AAA"][NumBars]
    /\ Len(bt.equity_curve) = NumBars - 1
    /\ bt.final_value # bt.starting_cash

ZeroCosts == bt.cost = CostModel(R(0), R(0), R(0))

\* every close of every listed symbol is positive and Rel-related to the next one
ClosesRise(Rel(_, _)) ==
    \A sym \in Listed :
        \A k \in 1..Len(bt.ohlcv_map[sym]) :
            /\ RLt(RZero, bt.ohlcv_map[sym][k])
            /\ k < Len(bt.ohlcv_map[sym])
               => Rel(bt.ohlcv_map[sym][k], bt.ohlcv_map[sym][k + 1])

CurveNonDecreasing ==
    \A k \in 1..(Len(bt.equity_curve) - 1) : RLe(bt.equity_curve[k], bt.equity_curve[k + 1])

\* the scenario of the second half: 10,000 in cash, balanced, two symbols, both picked
\* by the rebalances, prices strictly increasing over at least two bars, no costs
RisingScenario ==
    /\ bt.pc = "done"
    /\ ZeroCosts
    /\ ClosesRise(RLt)
    /\ ShortestSeries >= 2
    /\ bt.starting_cash = R(10000)
    /\ bt.profile = "balanced"
    /\ Len(bt.symbols) = 2
    /\ Listed = SeqToSet(bt.symbols)
    /\ bt.rebalance_every > 0
    /\ Len(bt.ranked) = 2
    /\ bt.max_holdings >= 2

\* C16 as stated: with no costs and positive, never decreasing closes the equity curve
\* is non-decreasing; and with strictly increasing prices, starting cash 10,000, the
\* balanced profile and two symbols, both picked, final_value > starting_cash.
C16_RisingPricesRisingEquity ==
    /\ (ZeroCosts /\ ClosesRise(RLe) /\ "equity_curve" \in DOMAIN bt) => CurveNonDecreasing
    /\ RisingScenario => RLt(bt.starting_cash, bt.final_value)

\* C16 amended: the same, the second half only for runs whose min_trade_cash_pct is
\* below the profile's max_position_pct (otherwise no rebalance buys anything and
\* final_value = starting_cash).
C16_RisingEquityWhenBought ==
    /\ (ZeroCosts /\ ClosesRise(RLe) /\ "equity_curve" \in DOMAIN bt) => CurveNonDecreasing
    /\ (/\ RisingScenario
        /\ RLt(bt.min_trade_cash_pct, PROFILES["balanced"].max_position_pct))
       => RLt(bt.starting_cash, bt.final_value)

\* C16 witness: such a run of NumBars bars that bought both symbols at bar 0 and whose
\* curve rose on every bar.
C16_Witness ==
    /\ RisingScenario
    /\ ShortestSeries = NumBars
    /\ RLt(bt.min_trade_cash_pct, PROFILES["balanced"].max_position_pct)
    /\ DOMAIN bt.port.positions = {"AAA", "BBB"}
    /\ \A k \in 1..(NumBars - 1) : RLt(bt.equity_curve[k], bt.equity_curve[k + 1])
    /\ RLt(bt.starting_cash, bt.final_value)

Canonical(name) == name \in {"conservative", "balanced", "aggressive"}

\* C14: backtest() with a profile name other than conservative, balanced or aggressive
\* fails in RiskAgent() before any trade or equity point exists, whereas
\* rebalance_to_picks with such a name completes its pass with the balanced
\* max_position_pct (0.05) and stop_loss_pct (0.07).
C14_ProfileLookupAsymmetry ==
    /\ (bt.pc # "call" /\ ~Canonical(bt.profile))
       => /\ bt.pc = "raised"
          /\ "equity_curve" \notin DOMAIN bt
          /\ "port" \notin DOMAIN bt
    /\ (bt.pc # "call" /\ Canonical(bt.profile)) => bt.pc # "raised"
    /\ \A p \in Procs :
          (run[p].pc \in {"rebalanced", "done"} /\ ~Canonical(run_cfg.profile))
          => /\ run[p].pass.cap = Frac(5, 100)
             /\ run[p].pass.stop_loss_pct = Frac(7, 100)

\* C14 witness: for one unknown name, backtest has raised and a live-runner invocation
\* has traded and saved.
C14_Witness ==
    /\ ~Canonical(bt.profile)
    /\ bt.pc = "raised"
    /\ run_cfg.profile = bt.profile
    /\ \E p \in Procs : run[p].pc = "done" /\ run[p].pass.trades # <<>>

(***************************************************************************)
(* Live-runner claims                                                      *)
(***************************************************************************)
Passed(p) == run[p].pc \in {"rebalanced", "done"}

StopLossHit(pos, px, stop_loss_pct) ==
    /\ RLt(RZero, pos.qty)
    /\ RLt(RZero, px)
    /\ RLt(RZero, pos.avg_price)
    /\ RLe(px, RMul(pos.avg_price, RSub(ROne, stop_loss_pct)))

\* C3: in one pass of rebalance_to_picks every position held at the start whose quote
\* is > 0 and <= average cost x (1 - stop_loss_pct) is sold in full by the stop-loss
\* sweep, and every stop-loss sell precedes every exit order and every target-driven
\* trade of the pass, whether or not the symbol is a target.
C3_StopLossFirst ==
    \A p \in Procs : Passed(p) =>
        LET t == run[p].pass.trades
            held == run[p].loaded.positions
            stop == profile_or_balanced(run_cfg.profile).stop_loss_pct
        IN  /\ \A sym \in DOMAIN held :
                  StopLossHit(held[sym], prices_get(run_cfg.prices, sym), stop)
                  => \E k \in 1..Len(t) :
                        /\ t[k].phase = "stop"
                        /\ t[k].symbol = sym
                        /\ t[k].before.positions[sym].qty = held[sym].qty
                        /\ t[k].after.positions[sym].qty = RZero
            /\ \A j, k \in 1..Len(t) : (j < k /\ t[k].phase = "stop") => t[j].phase = "stop"

\* C3 witness: a stop-loss sell of a symbol that is in the target set, followed in the
\* same pass by an exit order or a target-driven trade.
C3_Witness ==
    \E p \in Procs :
        /\ Passed(p)
        /\ \E j, k \in 1..Len(run[p].pass.trades) :
              /\ j < k
              /\ run[p].pass.trades[j].phase = "stop"
              /\ run[p].pass.trades[j].symbol \in DOMAIN run[p].pass.targets.w
              /\ run[p].pass.trades[k].phase # "stop"

\* C4: a buy issued for a target symbol never brings that symbol's position value
\* (quantity x quote) above max_position_pct x E, E being the equity read after the
\* stop-loss sweep and the exit orders.
C4_BuyWithinPositionCap ==
    \A p \in Procs : Passed(p) =>
        \A k \in 1..Len(run[p].pass.trades) :
            LET t == run[p].pass.trades[k]
            IN  t.side = "BUY"
                => RLe(RMul(qty_of(t.after, t.symbol), t.price),
                       RMul(profile_or_balanced(run_cfg.profile).max_position_pct,
                            run[p].pass.eq))

\* C4 witness: an executed buy that tops up an existing position of a symbol whose
\* normalized weight is above the cap, after a sell earlier in the same pass.
C4_Witness ==
    \E p \in Procs :
        /\ Passed(p)
        /\ \E j, k \in 1..Len(run[p].pass.trades) :
              LET t == run[p].pass.trades[k]
              IN  /\ j < k
                  /\ run[p].pass.trades[j].side = "SELL"
                  /\ t.side = "BUY"
                  /\ t.after # t.before
                  /\ RLt(RZero, qty_of(t.before, t.symbol))

\* the prices dict with no entry for the symbols whose fetch returned no bars
QuotedOnly == [sym \in {x \in Symbols : run_cfg.bars[x] # <<>>} |-> run_cfg.prices[sym]]

\* cash plus each position at its quote, at its average cost when it has no quote
EquityAtCostIfUnquoted(p) ==
    RAdd(p.cash, RAdd(HeldValue(p, QuotedOnly, "AAA"), HeldValue(p, QuotedOnly, "BBB")))

\* C18: in a pass of rebalance_to_picks, a held symbol for which the price fetch
\* returned no bars is valued at quantity x average cost in the equity used for the
\* threshold, in the equity used for target values, and in the equity returned.
C18_MissingQuoteAtAverageCost ==
    \A p \in Procs : Passed(p) =>
        LET port0 == [cash |-> run[p].loaded.cash, positions |-> run[p].loaded.positions]
        IN  /\ run[p].pass.eq0 = EquityAtCostIfUnquoted(port0)
            /\ run[p].pass.eq = EquityAtCostIfUnquoted(run[p].pass.exited)
            /\ run[p].pass.final_eq = EquityAtCostIfUnquoted(run[p].pass.port)

\* C19: in apply_decisions, for any list of decisions, no symbol's target weight
\* exceeds the risk profile's max_position_pct (at most 0.08 for every canonical
\* profile), so no buy is sized above that fraction of current equity.
C19_GeminiTargetsCapped ==
    run.pc \in {"applied", "done"} =>
        /\ \A sym \in DOMAIN run.pass.targets.w :
              RLe(run.pass.targets.w[sym], PROFILES["aggressive"].max_position_pct)
        /\ \A k \in 1..Len(run.pass.trades) :
              run.pass.trades[k].side = "BUY"
              => RLe(run.pass.trades[k].arg,
                     RMul(PROFILES["aggressive"].max_position_pct, run.pass.eq))

RECURSIVE SumClampedWeights(_)
\* S: the sum of max(0, w) over all picks
SumClampedWeights(picks) ==
    IF picks = <<>> THEN RZero
    ELSE RAdd(IF RLt(Head(picks).w, RZero) THEN RZero ELSE Head(picks).w,
              SumClampedWeights(Tail(picks)))

\* the weight a symbol's pick carries (the last one, if the symbol is listed twice)
PickedWeight(picks, sym) ==
    LET k == CHOOSE j \in 1..Len(picks) :
                /\ picks[j].symbol = sym
                /\ \A i \in (j + 1)..Len(picks) : picks[i].symbol # sym
    IN  IF RLt(picks[k].w, RZero) THEN RZero ELSE picks[k].w

\* C20: in rebalance_to_picks the final target weight of each picked symbol is
\* min(max(0, w) / S, max_position_pct), S being the sum of max(0, w) over all picks,
\* and 0 when S = 0; every target weight lies in [0, max_position_pct], the target
\* weights sum to at most 1, and nothing is scaled up after capping.
C20_TargetWeights ==
    \A p \in Procs : Passed(p) =>
        LET picks == run[p].picks
            w == run[p].pass.targets.w
            S == SumClampedWeights(picks)
            cap == IF run_cfg.profile = "aggressive" THEN Frac(8, 100) ELSE Frac(5, 100)
        IN  /\ DOMAIN w = {picks[k].symbol : k \in 1..Len(picks)}
            /\ \A sym \in DOMAIN w :
                  /\ w[sym] = IF S = RZero THEN RZero
                              ELSE RMin(RDiv(PickedWeight(picks, sym), S), cap)
                  /\ RLe(RZero, w[sym])
                  /\ RLe(w[sym], cap)
            /\ RLe(RAdd(IF "AAA" \in DOMAIN w THEN w["AAA"] ELSE RZero,
                        IF "BBB" \in DOMAIN w THEN w["BBB"] ELSE RZero), ROne)

\* C20 witness: two picks, one with a negative weight, the other capped: the targets
\* are 0 and max_position_pct and leave most of the equity in cash.
C20_Witness ==
    \E p \in Procs :
        /\ Passed(p)
        /\ Len(run[p].picks) = 2
        /\ \E a, b \in DOMAIN run[p].pass.targets.w :
              /\ run[p].pass.targets.w[a] = RZero
              /\ run[p].pass.targets.w[b] = run[p].pass.cap
              /\ RLt(run[p].pass.cap, ROne)

AllDone == \A p \in Procs : run[p].pc = "done"

Interleaved == \A p \in Procs : run[p].saved_before_load = 0

\* the persisted snapshot after invocation a, then invocation b, run one after the other
Sequential(a, b) ==
    LET first == rb_pass(run_cfg.snapshot0, run[a].picks, run_cfg.prices, run_cfg).port
        second == rb_pass(Snapshot(first.cash, first.positions), run[b].picks,
                          run_cfg.prices, run_cfg).port
    IN  Snapshot(second.cash, second.positions)

\* C5: there is no lock or version check between load_state and save_state: when both
\* invocations load before either saves, the persisted snapshot is the ledger of the
\* invocation that saved last, computed from the snapshot both loaded; the trades the
\* other invocation saved are lost.
C5_LastSaverWins ==
    (AllDone /\ Interleaved) =>
        \A p \in Procs : run[p].save_no = Cardinality(Procs) =>
            /\ run[p].loaded = run_cfg.snapshot0
            /\ state_file = Snapshot(run[p].pass.port.cash, run[p].pass.port.positions)

\* C5 witness: such an execution in which both invocations traded and the persisted
\* snapshot differs from the result of either sequential order.
C5_Witness ==
    /\ AllDone
    /\ Interleaved
    /\ \A p \in Procs : run[p].pass.trades # <<>>
    /\ state_file # Sequential(1, 2)
    /\ state_file # Sequential(2, 1)

(***************************************************************************)
(* Selection weights, metrics and orchestrator claims                      *)
(***************************************************************************)
Returned(fn) == call.pc = "returned" /\ call.fn = fn

RECURSIVE SumWeights(_)
SumWeights(res) == IF res = <<>> THEN RZero ELSE RAdd(Head(res)[3], SumWeights(Tail(res)))

\* the non-negative part of the k-th score divided by the sum of the non-negative parts of
\* the first n scores
ScoreShare(ranked, n, k) ==
    RDiv(RMax(RZero, ranked[k][2]), cw_ssum(SubSeq(ranked, 1, n)))

\* C21: compute_weights on a non-empty ranked list with top_n >= 1 returns the first
\* min(top_n, len) entries with weights that are all non-negative and sum to 1 in both
\* modes: 1/N each in equal mode; in score mode the non-negative part of each score divided
\* by the sum of the non-negative parts, and 1/N each when no score is positive.
C21_WeightsContract ==
    (/\ Returned("compute_weights")
     /\ call.ranked # <<>>
     /\ call.top_n >= 1
     /\ call.mode \in {"equal", "score"}) =>
        LET n == MinInt(call.top_n, Len(call.ranked))
            by_score == call.mode = "score" /\ RLt(RZero, cw_ssum(SubSeq(call.ranked, 1, n)))
        IN  /\ Len(call.result) = n
            /\ \A k \in 1..n :
                  /\ call.result[k][1] = call.ranked[k][1]
                  /\ call.result[k][2] = call.ranked[k][2]
                  /\ RLe(RZero, call.result[k][3])
                  /\ call.result[k][3] = IF by_score THEN ScoreShare(call.ranked, n, k)
                                         ELSE Frac(1, n)
            /\ SumWeights(call.result) = ROne

NonNegativeCurve(curve) == \A k \in 1..Len(curve) : RLe(RZero, curve[k])

\* the highest valuation among the first k
RunningPeak(curve, k) ==
    CHOOSE v \in {curve[j] : j \in 1..k} : \A j \in 1..k : RLe(curve[j], v)

\* (running_peak - value) / running_peak at point k, 0 while the peak is not positive
DrawdownAt(curve, k) ==
    LET peak == RunningPeak(curve, k)
    IN  IF RLt(RZero, peak) THEN RDiv(RSub(peak, curve[k]), peak) ELSE RZero

LargestDrawdown(curve) ==
    CHOOSE d \in {DrawdownAt(curve, k) : k \in 1..Len(curve)} :
        \A k \in 1..Len(curve) : RLe(DrawdownAt(curve, k), d)

\* what holds of every dict compute_metrics does return
MetricsWhenReturned ==
    (Returned("compute_metrics") /\ "raised" \notin DOMAIN call.result) =>
        IF call.equity_curve = <<>>
        THEN /\ call.result.total_return = RZero
             /\ call.result.sharpe_ratio = SharpeZero
             /\ call.result.max_drawdown = RZero
             /\ call.result.win_rate = RZero
             /\ call.result.final_equity = call.starting_cash
        ELSE NonNegativeCurve(call.equity_curve) =>
                /\ RLe(RZero, call.result.max_drawdown)
                /\ RLe(call.result.max_drawdown, ROne)
                /\ call.result.max_drawdown = LargestDrawdown(call.equity_curve)

\* C22: compute_metrics returns max_drawdown in [0, 1], the largest
\* (running_peak - value) / running_peak, for every non-empty equity curve of non-negative
\* valuations, and for an empty curve returns total_return, sharpe_ratio, max_drawdown and
\* win_rate all 0 with final_equity equal to the starting cash.
C22_MetricsReturned ==
    /\ MetricsWhenReturned
    /\ (Returned("compute_metrics") /\ NonNegativeCurve(call.equity_curve)) =>
          "raised" \notin DOMAIN call.result

\* C23: run_once runs the technical agent first and then the risk agent on its signal: for
\* any non-zero last_price the returned signal keeps the requested symbol and the technical
\* agent's action (one of BUY, SELL, HOLD), has confidence in [0, 1], and has
\* stop_loss = last_price * (1 - stop_loss_pct of the profile), which is never None.
C23_RunOnce ==
    (Returned("run_once") /\ call.last_price # RZero) =>
        /\ call.result.symbol = call.symbol
        /\ call.result.signal = call.tech_sig.signal
        /\ call.result.signal \in {"BUY", "SELL", "HOLD"}
        /\ RLe(RZero, call.result.confidence)
        /\ RLe(call.result.confidence, ROne)
        /\ call.result.stop_loss # "None"
        /\ call.result.stop_loss =
              RMul(call.last_price, RSub(ROne, PROFILES[call.profile].stop_loss_pct))

\* C23 witness: a BUY at full confidence for a price of 100 under the balanced profile
\* comes back with its stop at 93.
C23_Witness ==
    /\ Returned("run_once")
    /\ call.profile = "balanced"
    /\ call.last_price = R(100)
    /\ call.tech_sig.signal = "BUY"
    /\ call.result.confidence = ROne
    /\ call.result.stop_loss = R(93)

(***************************************************************************)
(* Rebalancing claims                                                      *)
(***************************************************************************)
\* max(min_trade_cash_pct * E, 1.0) for the equity E re-read after the sweep and the exits
ThresholdAfterExits(pass) == RMax(RMul(run_cfg.min_trade_cash_pct, pass.eq), ROne)

QuotedTargets(pass) ==
    {sym \in DOMAIN pass.targets.w : RLt(RZero, prices_get(run_cfg.prices, sym))}

\* target value minus position value of a target symbol when the adjustment loop reaches it
DeltaOf(pass, sym) ==
    RSub(RMul(pass.targets.w[sym], pass.eq),
         IF sym \in DOMAIN pass.exited.positions
         THEN RMul(pass.exited.positions[sym].qty, prices_get(run_cfg.prices, sym))
         ELSE RZero)

TargetTraded(pass, sym) ==
    \E k \in 1..Len(pass.trades) :
        pass.trades[k].phase = "adjust" /\ pass.trades[k].symbol = sym

\* C24: in rebalance_to_picks the anti-churn threshold applied to each target symbol's delta
\* is max(min_trade_cash_pct * E, 1.0) for the equity E re-read after the stop-loss sweep
\* and the exit orders (the E of the target values), and a target-driven trade is issued
\* if and only if |delta| is at least that threshold.
C24_ThresholdFromRereadEquity ==
    \A p \in Procs : Passed(p) =>
        /\ run[p].pass.thresh = ThresholdAfterExits(run[p].pass)
        /\ \A sym \in QuotedTargets(run[p].pass) :
              TargetTraded(run[p].pass, sym) <=>
                  RLe(ThresholdAfterExits(run[p].pass), RAbs(DeltaOf(run[p].pass, sym)))

\* the second half of C24 alone: a pass that skips a target symbol whose |delta| reaches
\* the threshold of the re-read equity
C24_SkippedAboveThreshold ==
    \E p \in Procs :
        /\ Passed(p)
        /\ \E sym \in QuotedTargets(run[p].pass) :
              /\ ~TargetTraded(run[p].pass, sym)
              /\ RLe(ThresholdAfterExits(run[p].pass), RAbs(DeltaOf(run[p].pass, sym)))

\* symbols held when the pass starts that are not targets and have a quote > 0
ExitSymbols(p) ==
    {sym \in DOMAIN run[p].loaded.positions :
        /\ RLt(RZero, run[p].loaded.positions[sym].qty)
        /\ sym \notin DOMAIN run[p].pass.targets.w
        /\ RLt(RZero, prices_get(run_cfg.prices, sym))}

SoldOut(pass, sym) ==
    \E k \in 1..Len(pass.trades) :
        /\ pass.trades[k].phase \in {"stop", "exit"}
        /\ pass.trades[k].side = "SELL"
        /\ pass.trades[k].symbol = sym
        /\ pass.trades[k].arg = pass.trades[k].before.positions[sym].qty

\* C25: after a pass of rebalance_to_picks every symbol that was held at the start of the
\* pass, is absent from the target set and has a quote > 0 has quantity 0 (sold in full by
\* the sweep or by an exit order), and every exit sell is executed before any
\* target-driven buy of the pass.
C25_ExitsBeforeEntries ==
    \A p \in Procs : Passed(p) =>
        LET t == run[p].pass.trades
        IN  /\ \A sym \in ExitSymbols(p) :
                  /\ run[p].pass.port.positions[sym].qty = RZero
                  /\ SoldOut(run[p].pass, sym)
            /\ \A i, j \in 1..Len(t) :
                  (t[i].phase = "exit" /\ t[j].phase = "adjust") => i < j

\* C25 witness: a pass that sold a held, unpicked symbol by an exit order and then bought
\* a target with the proceeds available.
C25_Witness ==
    \E p \in Procs :
        /\ Passed(p)
        /\ \E i, j \in 1..Len(run[p].pass.trades) :
              /\ run[p].pass.trades[i].phase = "exit"
              /\ run[p].pass.trades[i].symbol \in ExitSymbols(p)
              /\ run[p].pass.trades[j].phase = "adjust"
              /\ run[p].pass.trades[j].side = "BUY"
              /\ run[p].pass.trades[j].after # run[p].pass.trades[j].before

(***************************************************************************)
(* Backtest rebalance claims                                               *)
(***************************************************************************)
\* a rebalance block has just run: its equity, picks, per-pick target and threshold
Rebalanced == BarDone /\ bt.rebalanced
RebalanceEquity == value(bt.pre, bt.prices)
RebalancePicks == SeqToSet(bt_picks(bt.ranked, bt.max_holdings))
PerPickTarget ==
    RMin(RMul(RebalanceEquity, bt.risk.max_position_pct),
         RDiv(RebalanceEquity, R(MaxInt(1, Cardinality(RebalancePicks)))))
ChurnThreshold == RMax(RMul(bt.min_trade_cash_pct, RebalanceEquity), ROne)

HeldQty(p, sym) == IF sym \in DOMAIN p.positions THEN p.positions[sym].qty ELSE RZero
PositionValue(p, sym) == RMul(HeldQty(p, sym), prices_get(bt.prices, sym))

PricedPicks == {sym \in RebalancePicks : RLt(RZero, prices_get(bt.prices, sym))}

\* a pick at least the threshold below its target is bought
C26_BoughtWhenBelow ==
    Rebalanced =>
        \A sym \in PricedPicks :
            RLe(RAdd(PositionValue(bt.pre, sym), ChurnThreshold), PerPickTarget)
                => RLt(HeldQty(bt.pre, sym), HeldQty(bt.mid, sym))

\* a pick at least the threshold above its target is sold down by min(qty, |delta| / price)
C26_SoldWhenAbove ==
    Rebalanced =>
        \A sym \in PricedPicks :
            RLe(RAdd(PerPickTarget, ChurnThreshold), PositionValue(bt.pre, sym))
                => HeldQty(bt.mid, sym) =
                      RSub(HeldQty(bt.pre, sym),
                           RMin(HeldQty(bt.pre, sym),
                                RDiv(RSub(PositionValue(bt.pre, sym), PerPickTarget),
                                     prices_get(bt.prices, sym))))

\* after the rebalance no pick is worth the target plus the threshold or more
C26_NoPickAboveTarget ==
    Rebalanced =>
        \A sym \in PricedPicks :
            RLt(PositionValue(bt.mid, sym), RAdd(PerPickTarget, ChurnThreshold))

\* C26: on a rebalance bar of backtest every picked symbol with a positive price whose
\* position value differs from the per-pick target min(equity * max_position_pct,
\* equity / len(picks)) by at least the anti-churn threshold is traded toward the target:
\* bought when below it, sold down by min(held quantity, |delta| / price) shares when
\* above it, so that after the rebalance no pick's position value exceeds the target by
\* the threshold or more.
C26_PicksTradedTowardTarget ==
    /\ C26_BoughtWhenBelow
    /\ C26_SoldWhenAbove
    /\ C26_NoPickAboveTarget

\* the ledger backtest starts from
StartingLedger ==
    Portfolio(bt.starting_cash, bt.cost.fee_rate, bt.cost.fee_fixed, bt.cost.slippage_bps)

\* something was bought between two ledgers: cash went down or a quantity went up
BoughtBetween(before, after) ==
    \/ RLt(after.cash, before.cash)
    \/ \E sym \in DOMAIN after.positions : RLt(HeldQty(before, sym), HeldQty(after, sym))

\* C27: in backtest with rebalance_every = K, selection, exit sells and entry buys run on
\* exactly the bars whose index i satisfies i mod K = 0 (bar 0 included) and no buy is
\* executed on any other bar; with K <= 0 no rebalance ever runs, the ledger is never
\* changed and every equity-curve point equals starting_cash.
C27_RebalanceCadence ==
    BarDone =>
        /\ bt.rebalanced <=> (bt.rebalance_every > 0 /\ (bt.i - 1) % bt.rebalance_every = 0)
        /\ ~bt.rebalanced => (bt.mid = bt.pre /\ ~BoughtBetween(bt.pre, bt.port))
        /\ bt.rebalance_every <= 0 =>
              /\ bt.port = StartingLedger
              /\ \A k \in 1..Len(bt.equity_curve) : bt.equity_curve[k] = bt.starting_cash

\* C27 witness: with K = 2 the bar of index 1 has run without a rebalance on a ledger
\* that bought on bar 0 and holds less than its per-pick target at the bar's prices.
C27_Witness ==
    /\ BarDone
    /\ bt.rebalance_every = 2
    /\ bt.i = 2
    /\ ~bt.rebalanced
    /\ bt.pre # StartingLedger
    /\ \E sym \in RebalancePicks :
          /\ RLt(RZero, HeldQty(bt.pre, sym))
          /\ RLt(RAdd(PositionValue(bt.pre, sym), ChurnThreshold), PerPickTarget)

\* C27 second witness: a run with K <= 0 over rising prices has returned a flat curve.
C27_WitnessNeverRebalanced ==
    /\ bt.pc = "done"
    /\ bt.rebalance_every <= 0
    /\ Len(bt.equity_curve) = NumBars
    /\ bt.ohlcv_map["AAA"][1] # bt.ohlcv_map["AAA"][NumBars]

(***************************************************************************)
(* Equity under trading                                                    *)
(***************************************************************************)
\* the price maps that quote the traded symbol at the call's quote: the other symbol is
\* quoted at anything or missing
QuoteMaps(symbol, price) ==
    {[sym \in {symbol} |-> price]}
    \cup {[sym \in Symbols |-> IF sym = symbol THEN price ELSE other] : other \in Prices}

\* C28: for any executed or skipped buy or sell at a quote P > 0, value() under any price
\* map that quotes the traded symbol at P is never higher after the call than before it,
\* and is exactly unchanged when fee_rate, fee_fixed and slippage_bps are all 0 (so that
\* a rebalance pass, being such calls under one price map, never ends with more equity
\* than it started with).
C28_TradingNeverAddsEquity ==
    (last.op \in {"buy", "sell"} /\ RLt(RZero, last.price)) =>
        \A prices \in QuoteMaps(last.symbol, last.price) :
            /\ RLe(value(ledger, prices), value(last.pre, prices))
            /\ ZeroFriction(ledger) => value(ledger, prices) = value(last.pre, prices)

\* the same with fee_rate <= 1 or slippage_bps <= 10000
C28_WithCostsUpTo100Pct ==
    (RLe(ledger.fee_rate, ROne) \/ RLe(ledger.slippage_bps, R(10000)))
        => C28_TradingNeverAddsEquity

\* the consequence for one pass of rebalance_to_picks
C28_PassNeverAddsEquity ==
    \A p \in Procs : Passed(p) => RLe(run[p].pass.final_eq, run[p].pass.eq0)

\* symbols the stop-loss sweep of the pass liquidated
SweptSymbols(pass) ==
    {pass.trades[k].symbol : k \in {j \in 1..Len(pass.trades) : pass.trades[j].phase = "stop"}}

\* C29: in one pass of rebalance_to_picks a symbol whose position was liquidated by the
\* stop-loss sweep holds quantity 0 at the end of that pass even when it is in the target
\* set with a positive weight: the entry/adjustment step does not buy it back.
C29_NoBuyBackAfterStopLoss ==
    \A p \in Procs : Passed(p) =>
        \A sym \in SweptSymbols(run[p].pass) :
            run[p].pass.port.positions[sym].qty = RZero

\* the same for the swept symbols that are not targets, or targets of weight 0
C29_UntargetedStaysSold ==
    \A p \in Procs : Passed(p) =>
        \A sym \in SweptSymbols(run[p].pass) :
            (sym \notin DOMAIN run[p].pass.targets.w \/ run[p].pass.targets.w[sym] = RZero)
                => run[p].pass.port.positions[sym].qty = RZero

(***************************************************************************)
(* Backtest over incomplete data                                           *)
(***************************************************************************)
SomeListedSeries == \E sym \in Listed : bt.ohlcv_map[sym] # <<>>

\* C30: backtest completes without raising for every symbol list and ohlcv_map in which
\* at least one listed symbol has a non-empty series, also when other listed symbols have
\* no entry in ohlcv_map: those symbols are never priced or traded and the curve has one
\* point per bar of the shortest available series.
C30_MissingSeriesTolerated ==
    (Canonical(bt.profile) /\ SomeListedSeries) =>
        /\ bt.pc # "raised"
        /\ BarDone =>
              \A sym \in bt_unlisted(bt.symbols, bt.ohlcv_map) :
                  sym \notin DOMAIN bt.prices /\ sym \notin DOMAIN bt.port.positions
        /\ bt.pc = "done" => Len(bt.equity_curve) = ShortestSeries

\* the same when every listed symbol has an entry in ohlcv_map
C30_WhenEveryListedSymbolHasAnEntry ==
    bt_unlisted(bt.symbols, bt.ohlcv_map) = {} => C30_MissingSeriesTolerated

====
